---------------------------- MODULE Spec2Model ----------------------------
(***************************************************************************)
(* The BIP enumerator of ex7 (bip.c, ex7.c, splitline.c): main runs        *)
(* bip_init, bip_read (lfs_split_line and process_line per input line,     *)
(* then bip_can_overflow and bip_preprocess), bip_enumerate and bip_exit.  *)
(* The build modelled is the one with assertions enabled (NDEBUG not       *)
(* defined): a failing assert aborts the program.                          *)
(*                                                                         *)
(* Specifications.  Spec is the program ex7; LiveSpec adds that it runs    *)
(* on; ApiSpec is any caller of bip.h; GuardSpec is bip_can_overflow on    *)
(* models at its limits; LookupSpec is the De Bruijn lookup on every one-  *)
(* bit mask; SplitSpec is lfs_split_line on lines of characters; FloatSpec *)
(* is the enumeration in binary floating-point arithmetic; NaiveSpec is    *)
(* the brute-force variant print_bin_solutions_lp of linear_program.c, and *)
(* CompareSpec runs it after bip_enumerate on the same file.               *)
(*                                                                         *)
(* Numbers.  Outside FloatSpec a double is an exact decimal fixed-point    *)
(* number: the integer v stands for v / Unit, Unit = 10^FracDigits, and    *)
(* rounding is not modelled.  In FloatSpec a double is a binary floating-  *)
(* point number of MantBits bits, rounded to nearest.  max_coef_val is     *)
(* 10^DBL_DIG in the source; the model uses 10^CoefDigits with a small     *)
(* CoefDigits, since 10^15 is outside the integers of the model checker.   *)
(* An unsigned int is 32 bits wide and is modelled as the pair <<hi, lo>>  *)
(* of its 16-bit halves.                                                   *)
(***************************************************************************)
EXTENDS Integers, Sequences, FiniteSets, TLC

(* ------------------------------ bounds -------------------------------- *)

\* largest column count an input file of the model declares successfully
MaxCols == 3
\* largest row count an input file of the model declares successfully
MaxRows == 2
\* an input file of the model declares at most MaxCells = cols * rows cells
MaxCells == 3
\* decimal digits after the point that an input number of the model has
FracDigits == 2
\* the model's DBL_DIG: max_coef_val = 10^CoefDigits
CoefDigits == 1
\* the lines an input file of the model has at most
MaxLines == 5
\* calls of bip_read and bip_enumerate a caller of the interface makes
MaxCalls == 2
\* the characters a line passed to lfs_split_line has at most
MaxLineLen == 3
\* calls of lfs_split_line a caller of splitline.h makes
MaxSplits == 2
\* the model's DBL_MANT_DIG: the mantissa bits of a floating-point number
MantBits == 9
\* the binary digits after the point that the floating-point part keeps
FracBits == 12
\* the cells cols * rows of an input file of the floating-point part
FloatCells == 2
\* the model's 1e-6 of bip_is_feasible: 2^-ToleranceBits
ToleranceBits == 4
\* the iterations of the brute-force loop that are followed from its start
\* and up to the wrap of its 32-bit counter
NaiveWindow == 10

(* ------------------------- program constants --------------------------- *)

BIP_MAX_COLS == 32
BIP_MAX_ROWS == 128
\* typedef enum { LE = 0, GE = 1, EQ = 2 } Sense
LE == 0
GE == 1
EQ == 2
\* index32[] is indexed by the top 5 bits of the 32-bit product
DEBRUIJN_SHIFT == 27

\* the range of int, the target of the casts (int)val of process_line
INT_MAX == 2147483647
INT_MIN == (-INT_MAX) - 1

Unit == 10 ^ FracDigits

RowIdx == 0 .. (MaxRows - 1)
ColIdx == 0 .. (MaxCols - 1)

Abs(v) == IF v < 0 THEN -v ELSE v

(* --------------------- 32-bit unsigned arithmetic ---------------------- *)

Half == 2 ^ 16

Zero32 == <<0, 0>>
One32 == <<0, 1>>

\* the unsigned int with value v, 0 <= v < 2^31
U32(v) == <<v \div Half, v % Half>>

\* Inc32 without the carry into the high half
Inc32_NoCarry(a) == <<a[1], (a[2] + 1) % Half>>

\* ++a, --a, a + b on unsigned int: modulo 2^32
Inc32(a) == IF a[2] = Half - 1 THEN <<(a[1] + 1) % Half, 0>> ELSE <<a[1], a[2] + 1>>

Dec32(a) == IF a[2] = 0 THEN <<(a[1] + Half - 1) % Half, Half - 1>> ELSE <<a[1], a[2] - 1>>

Add32(a, b) ==
  LET lo == a[2] + b[2]
  IN  <<(a[1] + b[1] + (lo \div Half)) % Half, lo % Half>>

RECURSIVE And16(_, _)
And16(a, b) ==
  IF a = 0 \/ b = 0 THEN 0
  ELSE ((a % 2) * (b % 2)) + 2 * And16(a \div 2, b \div 2)

RECURSIVE Xor16(_, _)
Xor16(a, b) ==
  IF a = 0 THEN b
  ELSE IF b = 0 THEN a
  ELSE ((a + b) % 2) + 2 * Xor16(a \div 2, b \div 2)

\* a & b, a ^ b
And32(a, b) == <<And16(a[1], b[1]), And16(a[2], b[2])>>

\* Xor32 when the mask is added, not xor-ed
Xor32_Add(a, b) == Add32(a, b)


Xor32(a, b) == <<Xor16(a[1], b[1]), Xor16(a[2], b[2])>>

\* 1u << k, 0 <= k <= 31
Shl1(k) == IF k < 16 THEN <<0, 2 ^ k>> ELSE <<2 ^ (k - 16), 0>>

\* the 32-bit product of two 16-bit numbers, as <<hi, lo>>
Mul16(p, q) ==
  LET t0 == (p % 256) * q
      t1 == (p \div 256) * q
      lo == (t0 % Half) + (t1 % 256) * 256
  IN  <<(t0 \div Half) + (t1 \div 256) + (lo \div Half), lo % Half>>

\* a * b on unsigned int: modulo 2^32
Mul32(a, b) ==
  LET low   == Mul16(a[2], b[2])
      cross == (Mul16(a[1], b[2])[2] + Mul16(a[2], b[1])[2]) % Half
  IN  <<(low[1] + cross) % Half, low[2]>>

\* a >> 27 as a number 0..31
Shr27(a) == a[1] \div (2 ^ (DEBRUIJN_SHIFT - 16))

\* a constant that is no De Bruijn sequence: 0x077CB530
DEBRUIJN32_Even == <<1916, 46384>>


\* #define DEBRUIJN32 0x077CB531U
DEBRUIJN32 == <<1916, 46385>>

index32 ==
  <<  0,  1, 28,  2, 29, 14, 24, 3, 30, 22, 20, 15, 25, 17,  4,  8,
     31, 27, 13, 23, 21, 19, 16, 7, 26, 12, 18,  6, 11,  5, 10,  9 >>


(* ------------------------------ the input ------------------------------ *)

\* typedef enum { READ_ERROR, READ_COLS, READ_ROWS, READ_COEF } LINE_MODE
READ_ERROR == "READ_ERROR"
READ_COLS == "READ_COLS"
READ_ROWS == "READ_ROWS"
READ_COEF == "READ_COEF"

\* A field of an input line.  Num(v) is a decimal numeral denoting v / Unit;
\* the other fields are named by their text.
Num(v) == [k |-> "num", v |-> v]
Word(s) == [k |-> s, v |-> 0]

\* strtod(field, &t): the class of the value, the value, whether it is beyond
\* the range of int (the numeral 2147483648), whether errno is set to ERANGE,
\* and whether t reached the end of the field.
Strtod(tok) ==
  CASE tok.k = "num"    -> [cls |-> "fin", val |-> tok.v, big |-> FALSE, erange |-> FALSE, atend |-> TRUE]
    [] tok.k = "1x"     -> [cls |-> "fin", val |-> Unit, big |-> FALSE, erange |-> FALSE, atend |-> FALSE]
    [] tok.k = "2147483648" -> [cls |-> "fin", val |-> 0, big |-> TRUE, erange |-> FALSE, atend |-> TRUE]
    [] tok.k = "nan"    -> [cls |-> "nan", val |-> 0, big |-> FALSE, erange |-> FALSE, atend |-> TRUE]
    [] tok.k = "inf"    -> [cls |-> "inf", val |-> 0, big |-> FALSE, erange |-> FALSE, atend |-> TRUE]
    [] tok.k = "1e999"  -> [cls |-> "inf", val |-> 0, big |-> FALSE, erange |-> TRUE, atend |-> TRUE]
    [] OTHER            -> [cls |-> "fin", val |-> 0, big |-> FALSE, erange |-> FALSE, atend |-> FALSE]

\* max_coef_val = pow(10.0, DBL_DIG), min_coef_val = -pow(10.0, DBL_DIG)
MaxCoefVal == (10 ^ CoefDigits) * Unit
MinCoefVal == -((10 ^ CoefDigits) * Unit)

\* fields that no numeric position accepts
BadNumTokens ==
  { Word("nan"), Word("inf"), Word("1e999"), Word("1x"), Word("<=") }

\* the fields the model offers on the cols line and on the rows line
BadDimTokens ==
  BadNumTokens \cup { Num(0), Num(-Unit), Num(Unit \div 4), Word("2147483648") }

ColsTokens ==
  { Num(c * Unit) : c \in 1 .. MaxCols } \cup BadDimTokens \cup { Num((BIP_MAX_COLS + 1) * Unit) }

RowsTokens(c) ==
  { Num(rr * Unit) : rr \in { q \in 1 .. MaxRows : c < 1 \/ c * q <= MaxCells } }
    \cup BadDimTokens \cup { Num((BIP_MAX_ROWS + 1) * Unit) }

\* the fields the model offers as a coefficient, as a sense and as a rhs
CoefTokens ==
  { Num(-Unit), Num(0), Num(Unit \div 4), Num(Unit), Num(MaxCoefVal) }
    \cup BadNumTokens \cup { Num(MaxCoefVal + 1), Num(MinCoefVal - 1) }

RhsTokens ==
  { Num(0), Num(Unit), Num(2 * Unit) }
    \cup BadNumTokens \cup { Num(MaxCoefVal + 1), Num(MinCoefVal - 1) }

SenseTokens ==
  { Word("<="), Word(">="), Word("="), Word("=="), Word("<"), Num(Unit) }

\* the field counts lfs_fields_used can report for a line of the model
FieldCounts == 0 .. (MaxCols + 3)


(* ------------------------------ the state ------------------------------ *)

VARIABLES
  pc,         \* position of main
  bip,        \* struct binary_program
  mode,       \* bip_read: LINE_MODE
  errno,      \* "ERANGE" once strtod has set it, else "0"
  lines,      \* bip_read: lines read so far
  lfs,        \* the LFS of the current line: used, and the fields looked at
  phase,      \* history: the mode process_line was last called with
  col,        \* process_line: the loop index col
  ret,        \* the value bip_read returned
  x, n, negn, \* bip_enumerate: current bit vector, node number, -n
  r,          \* bip_enumerate: row residuals
  sol_count,  \* bip_enumerate: solutions found
  visited,    \* history: the x passed to check_feasibility, in order
  reported,   \* history: the x passed to report_sol, in order
  stages,     \* history: the stages of bip_read and main that have run
  crash,      \* the assertion that failed, "" if none
  split,      \* lfs_split_line: the LFS passed in and returned, NULL if none
  arg,        \* lfs_split_line: the line argument of the last call
  spos,       \* lfs_split_line: the position s in lfs->line, from 1
  lookup,     \* the De Bruijn lookup of bip_enumerate, step by step
  lp,         \* the LinearProgram of the brute-force variant, NULL if none
  naive       \* print_bin_solutions_lp: configuration, count, i, feasible_solutions

readv == <<mode, errno, lines, lfs, phase, col>>
enumv == <<x, n, negn, r, sol_count, visited, reported>>
splitv == <<split, arg, spos>>
naivev == <<lp, naive>>
\* the variables that bip.c and ex7.c leave alone
extv == <<splitv, lookup, naivev>>
vars == <<pc, bip, mode, errno, lines, lfs, phase, col, ret, x, n, negn, r, sol_count,
          visited, reported, stages, crash, split, arg, spos, lookup, lp, naive>>

\* a pointer is modelled by a sequence: empty for NULL, else holding the
\* object pointed to
NULL == <<>>

\* colidx = index32[(uint32_t)(updatemask * DEBRUIJN32) >> 27] before its
\* evaluation: the product, the shifted product and colidx are not computed
NoLookup == [updatemask |-> <<0, 0>>, product |-> <<0, 0>>, slot |-> 0, colidx |-> 0]

\* no line has been split, no lookup is under way and the brute-force
\* variant has not been started
ExtIdle ==
  /\ lookup = NoLookup
  /\ split = NULL
  /\ arg = <<>>
  /\ spos = 0
  /\ lp = NULL
  /\ naive = NULL

\* no line has been split, or the LFS has been freed
NoLfs == [used |-> 0, seen |-> <<>>]

ZeroRow == [c \in ColIdx |-> 0]
ZeroCol == [k \in RowIdx |-> 0]

\* bip_init: calloc, then max_coef_val and min_coef_val
BipInit ==
  [ rows |-> 0, cols |-> 0,
    ar |-> [k \in RowIdx |-> ZeroRow],
    rhs |-> ZeroCol,
    sense |-> [k \in RowIdx |-> LE],
    equs |-> 0,
    ac |-> [c \in ColIdx |-> ZeroCol],
    rhs_ord |-> ZeroCol,
    min_coef_val |-> MinCoefVal,
    max_coef_val |-> MaxCoefVal,
    read_rows |-> 0 ]

\* BipIsValid when a BIP without rows and columns counts as invalid
BipIsValid_LoadedOnly(b) == b.rows > 0 /\ b.cols > 0

\* bip_is_valid
BipIsValid(b) ==
  /\ ~(b.max_coef_val <= b.min_coef_val)
  /\ ~(b.rows < 0 \/ b.rows > BIP_MAX_ROWS)
  /\ ~(b.cols < 0 \/ b.cols > BIP_MAX_COLS)
  /\ ~((b.rows > 0 /\ b.cols = 0) \/ (b.rows = 0 /\ b.cols > 0))
  /\ ~(b.equs > b.rows)
  /\ \A k \in 0 .. (b.rows - 1) : \A c \in 0 .. (b.cols - 1) :
        /\ ~(b.ar[k][c] < b.min_coef_val \/ b.ar[k][c] > b.max_coef_val)
        /\ ~(b.rhs[k] < b.min_coef_val \/ b.rhs[k] > b.max_coef_val)
  /\ LET cells == (0 .. (b.rows - 1)) \X (0 .. (b.cols - 1))
         nzo_r == Cardinality({ e \in cells : b.ar[e[1]][e[2]] # 0 })
         nzo_c == Cardinality({ e \in cells : b.ac[e[2]][e[1]] # 0 })
     IN  nzo_r = nzo_c

\* x & (1u << c) is not 0
BitSet(w, c) == And32(w, Shl1(c)) # Zero32

\* the lhs bip_is_feasible accumulates over the columns c .. cols-1 of row k
RECURSIVE RowLhs(_, _, _, _)
RowLhs(b, k, w, c) ==
  IF c >= b.cols THEN 0
  ELSE (IF BitSet(w, c) THEN b.ar[k][c] ELSE 0) + RowLhs(b, k, w, c + 1)

\* fabs(d) > 1e-6: a difference of two numbers of the model is a multiple of
\* 1 / Unit, which exceeds 1e-6 exactly when it is not 0
ExceedsTolerance(d) == Abs(d) > 0

\* the row test of bip_is_feasible: TRUE when row k breaks off the loop
RowInfeasible(b, k, w) ==
  LET lhs == RowLhs(b, k, w, 0)
  IN  \/ (b.sense[k] = EQ /\ ExceedsTolerance(lhs - b.rhs[k]))
      \/ (b.sense[k] = LE /\ lhs > b.rhs[k])
      \/ (b.sense[k] = GE /\ lhs < b.rhs[k])

\* bip_is_feasible
BipIsFeasible(b, w) == \A k \in 0 .. (b.rows - 1) : ~RowInfeasible(b, k, w)

Init ==
  /\ pc = "bip_read"
  /\ bip = BipInit
  /\ mode = READ_COLS
  /\ errno = "0"
  /\ lines = 0
  /\ lfs = NoLfs
  /\ phase = READ_COLS
  /\ col = 0
  /\ ret = 0
  /\ x = Zero32
  /\ n = Zero32
  /\ negn = Zero32
  /\ r = ZeroCol
  /\ sol_count = 0
  /\ visited = <<>>
  /\ reported = <<>>
  /\ stages = <<>>
  /\ crash = ""
  /\ ExtIdle

(* ------------------------- bip_read: the lines ------------------------- *)

\* errno after a call of strtod: set on a range error, else left as it was
ErrnoAfter(p, e) == IF p.erange THEN "ERANGE" ELSE e

\* (int)val for the integral val >= 1 that process_line casts: the value when
\* int holds it; otherwise the conversion is undefined, and the builds give
\* INT_MIN (x86) or INT_MAX (saturating targets)
CastInt(p) == IF p.big THEN {INT_MIN, INT_MAX} ELSE {p.val \div Unit}

\* the rejection test of process_line for the cols line (maxv = BIP_MAX_COLS)
\* and the rows line (maxv = BIP_MAX_ROWS); iv is the outcome of (int)val
DimRejected(p, e, iv, maxv) ==
  \/ e = "ERANGE"
  \/ p.cls = "nan"
  \/ p.cls = "inf"
  \/ (~p.big /\ p.val % Unit # 0)
  \/ (~p.big /\ p.val < Unit)
  \/ iv > maxv
  \/ ~p.atend

\* the rejection test of process_line for a coefficient or a rhs
CoefRejected(p, e, b) ==
  \/ e = "ERANGE"
  \/ p.cls = "nan"
  \/ p.cls = "inf"
  \/ (p.big \/ p.val > b.max_coef_val)
  \/ (~p.big /\ p.val < b.min_coef_val)
  \/ ~p.atend

\* the strcmp chain of process_line on the sense field; -1: none matched
SenseOf(tok) ==
  IF tok.k = "<=" THEN LE
  ELSE IF tok.k = ">=" THEN GE
  ELSE IF tok.k = "=" \/ tok.k = "==" THEN EQ
  ELSE -1

\* bip_read: assert(bip_is_valid(bip)), then fopen fails
FopenFail ==
  /\ pc = "bip_read"
  /\ IF BipIsValid(bip)
       THEN /\ pc' = "main_ret"
            /\ ret' = -1
            /\ crash' = crash
       ELSE /\ pc' = "abort"
            /\ ret' = ret
            /\ crash' = "bip_read: bip_is_valid"
  /\ UNCHANGED <<bip, readv, enumv, stages, extv>>

\* bip_read: assert(bip_is_valid(bip)), then fopen succeeds
FopenOk ==
  /\ pc = "bip_read"
  /\ IF BipIsValid(bip)
       THEN /\ pc' = "fgets"
            /\ mode' = READ_COLS
            /\ lines' = 0
            /\ stages' = Append(stages, "read")
            /\ crash' = crash
       ELSE /\ pc' = "abort"
            /\ crash' = "bip_read: bip_is_valid"
            /\ UNCHANGED <<mode, lines, stages>>
  /\ UNCHANGED <<bip, errno, lfs, phase, col, ret, enumv, extv>>

\* one line of the file in mode READ_COLS: lfs_split_line, process_line
ReadColsLine ==
  /\ pc = "fgets"
  /\ mode = READ_COLS
  /\ lines < MaxLines
  /\ lines' = lines + 1
  /\ phase' = mode
  /\ \E nfi \in FieldCounts :
       IF nfi = 0 THEN lfs' = [used |-> nfi, seen |-> <<>>] /\ UNCHANGED <<bip, mode, errno>>
       ELSE IF nfi # 1
         THEN /\ lfs' = [used |-> nfi, seen |-> <<>>]
              /\ mode' = READ_ERROR
              /\ UNCHANGED <<bip, errno>>
       ELSE \E tok \in ColsTokens :
              LET p == Strtod(tok)
                  e == ErrnoAfter(p, errno)
              IN  /\ lfs' = [used |-> nfi, seen |-> <<tok>>]
                  /\ errno' = e
                  /\ \E iv \in CastInt(p) :
                       IF DimRejected(p, e, iv, BIP_MAX_COLS)
                         THEN mode' = READ_ERROR /\ bip' = bip
                         ELSE mode' = READ_ROWS /\ bip' = [bip EXCEPT !.cols = iv]
  /\ UNCHANGED <<pc, col, ret, enumv, stages, crash, extv>>

\* one line of the file in mode READ_ROWS
ReadRowsLine ==
  /\ pc = "fgets"
  /\ mode = READ_ROWS
  /\ lines < MaxLines
  /\ lines' = lines + 1
  /\ phase' = mode
  /\ \E nfi \in FieldCounts :
       IF nfi = 0 THEN lfs' = [used |-> nfi, seen |-> <<>>] /\ UNCHANGED <<bip, mode, errno>>
       ELSE IF nfi # 1
         THEN /\ lfs' = [used |-> nfi, seen |-> <<>>]
              /\ mode' = READ_ERROR
              /\ UNCHANGED <<bip, errno>>
       ELSE \E tok \in RowsTokens(bip.cols) :
              LET p == Strtod(tok)
                  e == ErrnoAfter(p, errno)
              IN  /\ lfs' = [used |-> nfi, seen |-> <<tok>>]
                  /\ errno' = e
                  /\ \E iv \in CastInt(p) :
                       IF DimRejected(p, e, iv, BIP_MAX_ROWS)
                         THEN mode' = READ_ERROR /\ bip' = bip
                         ELSE mode' = READ_COEF /\ bip' = [bip EXCEPT !.rows = iv]
  /\ UNCHANGED <<pc, col, ret, enumv, stages, crash, extv>>

\* one line of the file in mode READ_COEF, up to the loop over its fields
ReadCoefLine ==
  /\ pc = "fgets"
  /\ mode = READ_COEF
  /\ lines < MaxLines
  /\ lines' = lines + 1
  /\ phase' = mode
  /\ col' = 0
  /\ \E nfi \in FieldCounts :
       /\ lfs' = [used |-> nfi, seen |-> <<>>]
       /\ IF nfi = 0 THEN UNCHANGED <<pc, mode>>
          ELSE IF bip.read_rows >= bip.rows THEN mode' = READ_ERROR /\ pc' = pc
          ELSE IF nfi # bip.cols + 2 THEN mode' = READ_ERROR /\ pc' = pc
          ELSE pc' = "field" /\ mode' = mode
  /\ UNCHANGED <<bip, errno, ret, enumv, stages, crash, extv>>

\* the field a data line of the model has at position c
FieldTokens(c) ==
  IF c < bip.cols THEN CoefTokens
  ELSE IF c = bip.cols THEN SenseTokens
  ELSE RhsTokens

\* process_line, READ_COEF: one iteration of the loop over the fields, and
\* bip->read_rows++ after the last one
ReadCoefField ==
  /\ pc = "field"
  /\ \E tok \in FieldTokens(col) :
       LET p    == Strtod(tok)
           e    == IF col # bip.cols THEN ErrnoAfter(p, errno) ELSE errno
           bad  == IF col # bip.cols THEN CoefRejected(p, e, bip) ELSE SenseOf(tok) = -1
           rr   == bip.read_rows
           b1   == IF col < bip.cols THEN [bip EXCEPT !.ar[rr][col] = p.val]
                   ELSE IF col = bip.cols THEN [bip EXCEPT !.sense[rr] = SenseOf(tok)]
                   ELSE [bip EXCEPT !.rhs[rr] = p.val]
           last == (col + 1 = bip.cols + 2)
       IN  /\ errno' = e
           /\ lfs' = [lfs EXCEPT !.seen = Append(@, tok)]
           /\ IF bad
                THEN /\ mode' = READ_ERROR
                     /\ pc' = "fgets"
                     /\ bip' = bip
                     /\ col' = col
                ELSE /\ mode' = mode
                     /\ pc' = IF last THEN "fgets" ELSE "field"
                     /\ bip' = IF last THEN [b1 EXCEPT !.read_rows = rr + 1] ELSE b1
                     /\ col' = col + 1
  /\ UNCHANGED <<lines, phase, ret, enumv, stages, crash, extv>>

\* bip_read: the loop ends with mode READ_ERROR; fclose, return -1
ReadError ==
  /\ pc = "fgets"
  /\ mode = READ_ERROR
  /\ pc' = "main_ret"
  /\ ret' = -1
  /\ lines' = 0
  /\ lfs' = NoLfs
  /\ col' = 0
  /\ UNCHANGED <<bip, mode, errno, phase, enumv, stages, crash, extv>>

\* bip_read: fgets returns NULL; fclose, the end-of-file test and
\* assert(bip->read_rows == bip->rows)
ReadEof ==
  /\ pc = "fgets"
  /\ mode # READ_ERROR
  /\ lines' = 0
  /\ IF bip.cols = 0 \/ bip.rows = 0 \/ bip.read_rows < bip.rows
       THEN pc' = "main_ret" /\ ret' = -1 /\ crash' = crash
       ELSE IF bip.read_rows # bip.rows
         THEN pc' = "abort" /\ ret' = ret /\ crash' = "bip_read: read_rows == rows"
         ELSE pc' = "can_overflow" /\ ret' = ret /\ crash' = crash
  /\ lfs' = NoLfs
  /\ col' = 0
  /\ UNCHANGED <<bip, mode, errno, phase, enumv, stages, extv>>

(* ------------------ bip_can_overflow, bip_preprocess ------------------- *)

\* bip_can_overflow, the loop over the columns c .. cols-1 of row k with the
\* running sums row_max and row_min: TRUE when it returns true
RECURSIVE RowCanOverflow(_, _, _, _, _)
RowCanOverflow(b, k, c, row_max, row_min) ==
  IF c >= b.cols THEN FALSE
  ELSE LET val == b.ar[k][c]
       IN  IF val > 0
             THEN IF row_max >= b.max_coef_val - val THEN TRUE
                  ELSE RowCanOverflow(b, k, c + 1, row_max + val, row_min)
           ELSE IF val < 0
             THEN IF row_min <= b.min_coef_val - val THEN TRUE
                  ELSE RowCanOverflow(b, k, c + 1, row_max, row_min + val)
           ELSE RowCanOverflow(b, k, c + 1, row_max, row_min)

\* BipCanOverflow when only the first row is examined
BipCanOverflow_FirstRowOnly(b) == RowCanOverflow(b, 0, 0, 0, 0)

\* BipCanOverflow when each coefficient is tested alone, not the running sums
BipCanOverflow_PerCoefficient(b) ==
  \E k \in 0 .. (b.rows - 1) : \E c \in 0 .. (b.cols - 1) :
    b.ar[k][c] >= b.max_coef_val \/ b.ar[k][c] <= b.min_coef_val

\* bip_can_overflow
BipCanOverflow(b) == \E k \in 0 .. (b.rows - 1) : RowCanOverflow(b, k, 0, 0, 0)

\* CopyRow with the columns of the row stored in reverse order
CopyRow_ColumnsReversed(b, k, row_cnt, sign) ==
  [b EXCEPT !.rhs_ord[row_cnt] = sign * b.rhs[k],
            !.ac = [c \in ColIdx |->
                      IF c < b.cols
                        THEN [b.ac[c] EXCEPT ![row_cnt] = sign * b.ar[k][(b.cols - 1) - c]]
                      ELSE b.ac[c]]]

\* CopyRow without the negation of the right-hand side
CopyRow_RhsNotNegated(b, k, row_cnt, sign) ==
  [b EXCEPT !.rhs_ord[row_cnt] = b.rhs[k],
            !.ac = [c \in ColIdx |->
                      IF c < b.cols THEN [b.ac[c] EXCEPT ![row_cnt] = sign * b.ar[k][c]]
                      ELSE b.ac[c]]]

\* bip_preprocess: row k of ar, multiplied by sign, stored as row row_cnt of
\* ac and rhs_ord
CopyRow(b, k, row_cnt, sign) ==
  [b EXCEPT !.rhs_ord[row_cnt] = sign * b.rhs[k],
            !.ac = [c \in ColIdx |->
                      IF c < b.cols THEN [b.ac[c] EXCEPT ![row_cnt] = sign * b.ar[k][c]]
                      ELSE b.ac[c]]]

\* bip_preprocess, first loop from row k on: the equations
RECURSIVE CopyEquations(_, _, _)
CopyEquations(b, k, row_cnt) ==
  IF k >= b.rows THEN [b |-> b, row_cnt |-> row_cnt]
  ELSE IF b.sense[k] = EQ
    THEN CopyEquations([CopyRow(b, k, row_cnt, 1) EXCEPT !.equs = b.equs + 1], k + 1, row_cnt + 1)
    ELSE CopyEquations(b, k + 1, row_cnt)

\* bip_preprocess, second loop from row k on: the rest, GE rows negated
RECURSIVE CopyRest(_, _, _)
CopyRest(b, k, row_cnt) ==
  IF k >= b.rows THEN [b |-> b, row_cnt |-> row_cnt]
  ELSE IF b.sense[k] = LE THEN CopyRest(CopyRow(b, k, row_cnt, 1), k + 1, row_cnt + 1)
  ELSE IF b.sense[k] = GE THEN CopyRest(CopyRow(b, k, row_cnt, -1), k + 1, row_cnt + 1)
  ELSE CopyRest(b, k + 1, row_cnt)

\* Reorder with the two loops exchanged
Reorder_RestFirst(b) ==
  LET rest == CopyRest([b EXCEPT !.equs = 0], 0, 0)
  IN  CopyEquations(rest.b, 0, rest.row_cnt)

\* bip_preprocess up to assert(bip->rows == row_cnt)
Reorder(b) ==
  LET eqs == CopyEquations([b EXCEPT !.equs = 0], 0, 0)
  IN  CopyRest(eqs.b, 0, eqs.row_cnt)

\* ceil(-log10(f / Unit)) for the fraction f / Unit, 0 < f < Unit: the least
\* e with 10^(-e) <= f / Unit
CeilNegLog10(f) ==
  CHOOSE e \in 1 .. FracDigits :
    /\ f * (10 ^ e) >= Unit
    /\ \A d \in 1 .. (e - 1) : f * (10 ^ d) < Unit

\* fabs(v) - floor(fabs(v))
Fraction(v) == Abs(v) % Unit

\* bip_preprocess: the exponent of the scaling factor of permuted row k,
\* 0 when the row is not scaled
ScaleExponent(b, k) ==
  LET exps == { CeilNegLog10(Fraction(b.ac[c][k])) :
                  c \in { d \in 0 .. (b.cols - 1) : Fraction(b.ac[d][k]) > 0 } }
  IN  IF exps = {} THEN 0 ELSE CHOOSE e \in exps : \A d \in exps : d <= e

\* ScaleRows when only the coefficients are scaled, not the right-hand side
ScaleRows_RhsNotScaled(b) ==
  LET factor(k) == 10 ^ ScaleExponent(b, k)
  IN  [b EXCEPT !.ac = [c \in ColIdx |-> [k \in RowIdx |->
                          IF c < b.cols /\ k < b.rows /\ ScaleExponent(b, k) > 0
                            THEN b.ac[c][k] * factor(k) ELSE b.ac[c][k]]]]

\* bip_preprocess: the scaling loop over all rows
ScaleRows(b) ==
  LET factor(k) == 10 ^ ScaleExponent(b, k)
  IN  [b EXCEPT !.ac = [c \in ColIdx |-> [k \in RowIdx |->
                          IF c < b.cols /\ k < b.rows /\ ScaleExponent(b, k) > 0
                            THEN b.ac[c][k] * factor(k) ELSE b.ac[c][k]]],
                !.rhs_ord = [k \in RowIdx |->
                          IF k < b.rows /\ ScaleExponent(b, k) > 0
                            THEN b.rhs_ord[k] * factor(k) ELSE b.rhs_ord[k]]]

\* AfterGuard when the result of bip_can_overflow is ignored
AfterGuard_Ignored(overflow) == "preprocess"

\* where bip_read goes after bip_can_overflow
AfterGuard(overflow) == IF overflow THEN "main_ret" ELSE "preprocess"

\* bip_read: if (bip_can_overflow(bip)) return -1
CanOverflow ==
  /\ pc = "can_overflow"
  /\ stages' = Append(stages, "guard")
  /\ pc' = AfterGuard(BipCanOverflow(bip))
  /\ ret' = IF BipCanOverflow(bip) THEN -1 ELSE ret
  /\ UNCHANGED <<bip, readv, enumv, crash, extv>>

\* bip_preprocess: reordering, removal of GE, the column-wise copy
PreprocessReorder ==
  /\ pc = "preprocess"
  /\ stages' = Append(stages, "preprocess")
  /\ LET res == Reorder(bip)
     IN  /\ bip' = res.b
         /\ IF bip.rows = res.row_cnt
              THEN pc' = "scale" /\ crash' = crash
              ELSE pc' = "abort" /\ crash' = "bip_preprocess: rows == row_cnt"
  /\ UNCHANGED <<readv, ret, enumv, extv>>

\* bip_preprocess: scaling; then bip_read: assert(bip_is_valid(bip)), return 0
PreprocessScale ==
  /\ pc = "scale"
  /\ bip' = ScaleRows(bip)
  /\ IF BipIsValid(ScaleRows(bip))
       THEN pc' = "main_ret" /\ ret' = 0 /\ crash' = crash
       ELSE pc' = "abort" /\ ret' = ret /\ crash' = "bip_read: bip_is_valid"
  /\ UNCHANGED <<readv, enumv, stages, extv>>

\* main: the statement main runs after bip_read returned rc
AfterRead(rc) == IF rc = 0 THEN "bip_enumerate" ELSE "bip_exit"

\* main: if (!bip_read(bip, argv[optind]))
MainAfterRead ==
  /\ pc = "main_ret"
  /\ pc' = AfterRead(ret)
  /\ UNCHANGED <<bip, readv, ret, enumv, stages, crash, extv>>

(* --------------------------- bip_enumerate ----------------------------- *)

\* check_feasibility: the two scans over the residuals; the k they end with
RECURSIVE ScanEquations(_, _, _)
ScanEquations(b, rr, k) ==
  IF k < b.equs /\ rr[k] = 0 THEN ScanEquations(b, rr, k + 1) ELSE k

RECURSIVE ScanInequalities(_, _, _)
ScanInequalities(b, rr, k) ==
  IF k < b.rows /\ rr[k] <= 0 THEN ScanInequalities(b, rr, k + 1) ELSE k

ScanResiduals(b, rr) ==
  LET k == ScanEquations(b, rr, 0)
  IN  IF k = b.equs THEN ScanInequalities(b, rr, k) ELSE k

\* CheckFeasibility when every vector is reported
CheckFeasibility_AcceptAll(b, w, rr) == [crash |-> "", found |-> 1]

\* check_feasibility(bip, x, r, report_sol): the assertion that fails ("" if
\* none) and the value returned
CheckFeasibility(b, w, rr) ==
  IF ~BipIsValid(b)
    THEN [crash |-> "check_feasibility: bip_is_valid", found |-> 0]
  ELSE IF ScanResiduals(b, rr) < b.rows
    THEN [crash |-> "", found |-> 0]
  ELSE IF ~BipIsFeasible(b, w)
    THEN [crash |-> "check_feasibility: bip_is_feasible", found |-> 0]
  ELSE [crash |-> "", found |-> 1]

\* NegnInit without negn += (negn - 1)
NegnInit_HighBitOnly(c) == Shl1(c - 1)

\* negn = 1u << (cols - 1); negn += (negn - 1)
NegnInit(c) == Add32(Shl1(c - 1), Dec32(Shl1(c - 1)))

\* UpdateMask without the n &
UpdateMask_NegnOnly(nn, ng) == ng


\* UpdateMask without the & negn
UpdateMask_Unmasked(nn, ng) == nn

\* updatemask = n & negn
UpdateMask(nn, ng) == And32(nn, ng)

\* colidx = index32[(uint32_t)(updatemask * DEBRUIJN32) >> 27]
ColIndex(mask) == index32[Shr27(Mul32(mask, DEBRUIJN32)) + 1]

\* modcol = bip->ac[colidx]; the columns from cols on are never written and
\* hold the zeros of calloc
ModCol(b, colidx) == IF colidx \in ColIdx THEN b.ac[colidx] ELSE ZeroCol

\* r[k] = -bip->rhs_ord[k] for k < rows
InitialResiduals(b) == [k \in RowIdx |-> IF k < b.rows THEN -b.rhs_ord[k] ELSE 0]

\* UpdateResiduals when the column is added whatever the new bit is
UpdateResiduals_AlwaysAdd(b, rr, w, mask, modcol) ==
  [k \in RowIdx |-> IF k >= b.rows THEN rr[k] ELSE rr[k] + modcol[k]]

\* the update of r after the flip to w: plus modcol when the bit of
\* updatemask is set in w, minus modcol when it is cleared
UpdateResiduals(b, rr, w, mask, modcol) ==
  [k \in RowIdx |->
     IF k >= b.rows THEN rr[k]
     ELSE IF And32(w, mask) # Zero32 THEN rr[k] + modcol[k]
     ELSE rr[k] - modcol[k]]

\* assert(((n + negn) & ((1u << (cols - 1)) + ((1u << (cols - 1)) - 1))) == 0)
LoopAssertion(nn, ng, c) ==
  And32(Add32(nn, ng), Add32(Shl1(c - 1), Dec32(Shl1(c - 1)))) = Zero32

\* bip_enumerate up to the loop: the residuals of x = 0 and its check
EnumStart ==
  /\ pc = "bip_enumerate"
  /\ stages' = Append(stages, "enumerate")
  /\ IF ~BipIsValid(bip)
       THEN /\ pc' = "abort"
            /\ crash' = "bip_enumerate: bip_is_valid"
            /\ UNCHANGED enumv
     ELSE IF bip.cols = 0
       THEN /\ pc' = "enum_ret"
            /\ sol_count' = 0
            /\ UNCHANGED <<x, n, negn, r, visited, reported, crash>>
     ELSE LET r0 == InitialResiduals(bip)
              cf == CheckFeasibility(bip, Zero32, r0)
          IN  /\ x' = Zero32
              /\ n' = One32
              /\ r' = r0
              /\ visited' = <<Zero32>>
              /\ reported' = IF cf.found = 1 THEN <<Zero32>> ELSE <<>>
              /\ sol_count' = cf.found
              /\ negn' = NegnInit(bip.cols)
              /\ crash' = cf.crash
              /\ pc' = IF cf.crash = "" THEN "loop" ELSE "abort"
  /\ UNCHANGED <<bip, readv, ret, extv>>

\* EnumStep when the loop stores the residuals into rhs_ord of the model
EnumStep_WritesModel ==
  /\ pc = "loop"
  /\ negn # Zero32
  /\ LET updatemask == UpdateMask(n, negn)
         colidx     == ColIndex(updatemask)
         x1         == Xor32(x, updatemask)
         r1         == UpdateResiduals(bip, r, x1, updatemask, ModCol(bip, colidx))
     IN  /\ n' = Inc32(n)
         /\ negn' = Dec32(negn)
         /\ x' = x1
         /\ r' = r1
         /\ bip' = [bip EXCEPT !.rhs_ord = r1]
         /\ visited' = Append(visited, x1)
         /\ pc' = "loop"
  /\ UNCHANGED <<readv, ret, stages, reported, sol_count, crash, extv>>

\* bip_enumerate: one iteration of while (negn != 0)
EnumStep ==
  /\ pc = "loop"
  /\ negn # Zero32
  /\ LET updatemask == UpdateMask(n, negn)
         colidx     == ColIndex(updatemask)
         x1         == Xor32(x, updatemask)
         r1         == UpdateResiduals(bip, r, x1, updatemask, ModCol(bip, colidx))
         cf         == CheckFeasibility(bip, x1, r1)
     IN  IF ~LoopAssertion(n, negn, bip.cols)
           THEN /\ pc' = "abort"
                /\ crash' = "bip_enumerate: n + negn"
                /\ UNCHANGED enumv
           ELSE /\ n' = Inc32(n)
                /\ negn' = Dec32(negn)
                /\ x' = x1
                /\ r' = r1
                /\ visited' = Append(visited, x1)
                /\ reported' = IF cf.found = 1 THEN Append(reported, x1) ELSE reported
                /\ sol_count' = sol_count + cf.found
                /\ crash' = cf.crash
                /\ pc' = IF cf.crash = "" THEN "loop" ELSE "abort"
  /\ UNCHANGED <<bip, readv, ret, stages, extv>>

\* bip_enumerate: the loop ends, return sol_count
EnumReturn ==
  /\ pc = "loop"
  /\ negn = Zero32
  /\ pc' = "enum_ret"
  /\ UNCHANGED <<bip, readv, ret, enumv, stages, crash, extv>>

\* main after bip_enumerate: bip_cols(bip) asserts bip_is_valid, then the
\* statistics are printed and bip_exit is called
MainAfterEnumerate ==
  /\ pc = "enum_ret"
  /\ IF BipIsValid(bip)
       THEN pc' = "bip_exit" /\ crash' = crash
       ELSE pc' = "abort" /\ crash' = "bip_cols: bip_is_valid"
  /\ UNCHANGED <<bip, readv, ret, enumv, stages, extv>>

\* bip_exit: assert(bip_is_valid(bip)); free
BipExit ==
  /\ pc = "bip_exit"
  /\ IF BipIsValid(bip)
       THEN pc' = "done" /\ crash' = crash
       ELSE pc' = "abort" /\ crash' = "bip_exit: bip_is_valid"
  /\ UNCHANGED <<bip, readv, ret, enumv, stages, extv>>

Next ==
  \/ FopenFail
  \/ FopenOk
  \/ ReadColsLine
  \/ ReadRowsLine
  \/ ReadCoefLine
  \/ ReadCoefField
  \/ ReadError
  \/ ReadEof
  \/ CanOverflow
  \/ PreprocessReorder
  \/ PreprocessScale
  \/ MainAfterRead
  \/ EnumStart
  \/ EnumStep
  \/ EnumReturn
  \/ MainAfterEnumerate
  \/ BipExit

Spec == Init /\ [][Next]_vars

\* the program runs on: a sequential process that can take a step takes it
LiveSpec == Spec /\ WF_vars(Next)

(* ------------- the public interface of bip.h, any caller -------------- *)

\* the calls of bip_read and bip_enumerate made so far
Calls == Cardinality({ i \in 1 .. Len(stages) : stages[i] \in {"read", "enumerate"} })

\* the fields of the files this caller reads: 0, 1 and 2, two senses, and
\* one field that is no number
ApiTokens ==
  { Num(0), Num(Unit), Num(2 * Unit), Word("<="), Word("="), Word("1x") }

\* the files this caller reads have no blank lines, fields from ApiTokens,
\* and right-hand sides 0 and 1
SmallFile ==
  /\ lines > 0 => lfs.used > 0
  /\ \A i \in 1 .. Len(lfs.seen) : lfs.seen[i] \in ApiTokens
  /\ \A k \in RowIdx : bip.rhs[k] \in {0, Unit}

\* a caller holding the BIP that bip_init returned
ApiInit ==
  /\ pc = "api"
  /\ bip = BipInit
  /\ mode = READ_COLS
  /\ errno = "0"
  /\ lines = 0
  /\ lfs = NoLfs
  /\ phase = READ_COLS
  /\ col = 0
  /\ ret = 0
  /\ x = Zero32
  /\ n = Zero32
  /\ negn = Zero32
  /\ r = ZeroCol
  /\ sol_count = 0
  /\ visited = <<>>
  /\ reported = <<>>
  /\ stages = <<>>
  /\ crash = ""
  /\ ExtIdle

\* the caller calls bip_read(bip, filename)
ApiCallRead ==
  /\ pc = "api"
  /\ Calls < MaxCalls
  /\ pc' = "bip_read"
  /\ UNCHANGED <<bip, readv, ret, enumv, stages, crash, extv>>

\* the caller calls bip_enumerate(bip, report_sol)
ApiCallEnumerate ==
  /\ pc = "api"
  /\ Calls < MaxCalls
  /\ pc' = "bip_enumerate"
  /\ UNCHANGED <<bip, readv, ret, enumv, stages, crash, extv>>

\* the caller calls bip_exit(bip)
ApiCallExit ==
  /\ pc = "api"
  /\ pc' = "bip_exit"
  /\ UNCHANGED <<bip, readv, ret, enumv, stages, crash, extv>>

\* bip_read or bip_enumerate returns to the caller
ApiReturn ==
  /\ pc \in {"main_ret", "enum_ret"}
  /\ pc' = "api"
  /\ UNCHANGED <<bip, readv, ret, enumv, stages, crash, extv>>

ApiNext ==
  \/ ApiCallRead
  \/ ApiCallEnumerate
  \/ ApiCallExit
  \/ ApiReturn
  \/ FopenFail
  \/ FopenOk
  \/ ReadColsLine /\ SmallFile'
  \/ ReadRowsLine /\ SmallFile'
  \/ ReadCoefLine /\ SmallFile'
  \/ ReadCoefField /\ SmallFile'
  \/ ReadError
  \/ ReadEof
  \/ CanOverflow
  \/ PreprocessReorder
  \/ PreprocessScale
  \/ EnumStart
  \/ EnumStep
  \/ EnumReturn
  \/ BipExit

ApiSpec == ApiInit /\ [][ApiNext]_vars

(* ----------------- bip_can_overflow as a function of the model ---------- *)

\* coefficients at and next to the limits that process_line lets through
GuardValues ==
  {MinCoefVal, MinCoefVal + Unit, -Unit, 0, Unit, MaxCoefVal - Unit, MaxCoefVal}

\* the cells of a model with ncols columns and nrows rows
Cells(ncols, nrows) == (0 .. (nrows - 1)) \X (0 .. (ncols - 1))

\* the model with ncols columns and nrows rows whose coefficients are f
GuardModel(ncols, nrows, f) ==
  [BipInit EXCEPT !.cols = ncols, !.rows = nrows, !.read_rows = nrows,
                  !.ar = [k \in RowIdx |-> [c \in ColIdx |->
                            IF <<k, c>> \in Cells(ncols, nrows) THEN f[<<k, c>>] ELSE 0]]]

\* the models bip_read can hold when it calls bip_can_overflow: cols and
\* rows read with at most MaxCells cells, read_rows = rows, every
\* coefficient within [min_coef_val, max_coef_val]
GuardModels ==
  UNION { UNION { { GuardModel(ncols, nrows, f) : f \in [Cells(ncols, nrows) -> GuardValues] } :
                    nrows \in { q \in 1 .. MaxRows : ncols * q <= MaxCells } } :
            ncols \in 1 .. MaxCols }

\* bip_read at the call of bip_can_overflow
GuardInit ==
  /\ pc = "can_overflow"
  /\ bip \in GuardModels
  /\ mode = READ_COEF
  /\ errno = "0"
  /\ lines = 0
  /\ lfs = NoLfs
  /\ phase = READ_COEF
  /\ col = 0
  /\ ret = 0
  /\ x = Zero32
  /\ n = Zero32
  /\ negn = Zero32
  /\ r = ZeroCol
  /\ sol_count = 0
  /\ visited = <<>>
  /\ reported = <<>>
  /\ stages = <<"read">>
  /\ crash = ""
  /\ ExtIdle

GuardNext == CanOverflow

GuardSpec == GuardInit /\ [][GuardNext]_vars

(* ------------- the De Bruijn lookup as a function of the mask ---------- *)

\* the 32-bit words with exactly one bit set
SingleBitMasks == { Shl1(j) : j \in 0 .. 31 }

\* bip_enumerate at the lookup, updatemask holding a word with one bit set
LookupInit ==
  /\ pc = "multiply"
  /\ lookup \in { [NoLookup EXCEPT !.updatemask = m] : m \in SingleBitMasks }
  /\ bip = BipInit
  /\ mode = READ_COLS
  /\ errno = "0"
  /\ lines = 0
  /\ lfs = NoLfs
  /\ phase = READ_COLS
  /\ col = 0
  /\ ret = 0
  /\ x = Zero32
  /\ n = Zero32
  /\ negn = Zero32
  /\ r = ZeroCol
  /\ sol_count = 0
  /\ visited = <<>>
  /\ reported = <<>>
  /\ stages = <<>>
  /\ crash = ""
  /\ split = NULL
  /\ arg = <<>>
  /\ spos = 0
  /\ lp = NULL
  /\ naive = NULL

\* (uint32_t)(updatemask * DEBRUIJN32)
LookupMultiply ==
  /\ pc = "multiply"
  /\ lookup' = [lookup EXCEPT !.product = Mul32(lookup.updatemask, DEBRUIJN32)]
  /\ pc' = "shift"
  /\ UNCHANGED <<bip, readv, ret, enumv, stages, crash, splitv, naivev>>

\* ... >> 27
LookupShift ==
  /\ pc = "shift"
  /\ lookup' = [lookup EXCEPT !.slot = Shr27(lookup.product)]
  /\ pc' = "index"
  /\ UNCHANGED <<bip, readv, ret, enumv, stages, crash, splitv, naivev>>

\* colidx = index32[...]
LookupIndex ==
  /\ pc = "index"
  /\ lookup' = [lookup EXCEPT !.colidx = index32[lookup.slot + 1]]
  /\ pc' = "looked"
  /\ UNCHANGED <<bip, readv, ret, enumv, stages, crash, splitv, naivev>>

LookupNext ==
  \/ LookupMultiply
  \/ LookupShift
  \/ LookupIndex

LookupSpec == LookupInit /\ [][LookupNext]_vars

(* ---------- the enumeration in binary floating-point arithmetic -------- *)

\* In this part a double is a binary floating-point number with MantBits
\* bits of mantissa, rounded to nearest, ties to even: the integer m stands
\* for m / FOne, FOne = 2^FracBits.  The decimal numerals of an input are
\* tenths, so that most of them are no such number, as in the program.

FOne == 2 ^ FracBits

\* the position of the highest bit of m >= 1
HighBit(m) == CHOOSE h \in 0 .. 30 : 2 ^ h <= m /\ m < 2 ^ (h + 1)

\* the distance of neighbouring doubles at the magnitude m >= 0
Quantum(m) ==
  IF m < 2 ^ MantBits THEN 1 ELSE 2 ^ ((HighBit(m) - MantBits) + 1)

\* the double nearest to num / den for num >= 0, den > 0
RoundPos(num, den) ==
  LET q    == Quantum(num \div den)
      low  == num \div (den * q)
      rest == num % (den * q)
      up   == \/ 2 * rest > den * q
              \/ (2 * rest = den * q /\ low % 2 = 1)
  IN  (IF up THEN low + 1 ELSE low) * q

\* the double nearest to num / den
RoundRat(num, den) ==
  IF num < 0 THEN -RoundPos(-num, den) ELSE RoundPos(num, den)

\* the result of an arithmetic operation whose exact value is m / FOne
Fl(m) == RoundRat(m, 1)

\* strtod on the numeral t / 10
StrtodTenths(t) == RoundRat(t * FOne, 10)

\* ceil(-log10(f / FOne)) for the fraction 0 < f < FOne
FCeilNegLog10(f) ==
  CHOOSE e \in 1 .. 9 :
    /\ f * (10 ^ e) >= FOne
    /\ \A d \in 1 .. (e - 1) : f * (10 ^ d) < FOne

\* fabs(v) - floor(fabs(v)), exact in floating point
FFraction(v) == Abs(v) % FOne

\* bip_preprocess: the exponent of the scaling factor of permuted row k
FScaleExponent(b, k) ==
  LET exps == { FCeilNegLog10(FFraction(b.ac[c][k])) :
                  c \in { d \in 0 .. (b.cols - 1) : FFraction(b.ac[d][k]) > 0 } }
  IN  IF exps = {} THEN 0 ELSE CHOOSE e \in exps : \A d \in exps : d <= e

\* bip_preprocess: the scaling loop, each product rounded
FScaleRows(b) ==
  LET factor(k) == 10 ^ FScaleExponent(b, k)
  IN  [b EXCEPT !.ac = [c \in ColIdx |-> [k \in RowIdx |->
                          IF c < b.cols /\ k < b.rows /\ FScaleExponent(b, k) > 0
                            THEN Fl(b.ac[c][k] * factor(k)) ELSE b.ac[c][k]]],
                !.rhs_ord = [k \in RowIdx |->
                          IF k < b.rows /\ FScaleExponent(b, k) > 0
                            THEN Fl(b.rhs_ord[k] * factor(k)) ELSE b.rhs_ord[k]]]

\* the BIP after bip_read has read the file with the given columns, rows,
\* coefficients, senses and right-hand sides, the numerals in tenths
FRead(ncols, nrows, coef, sns, rhs) ==
  [BipInit EXCEPT !.cols = ncols, !.rows = nrows, !.read_rows = nrows,
                  !.min_coef_val = -((10 ^ CoefDigits) * FOne),
                  !.max_coef_val = (10 ^ CoefDigits) * FOne,
                  !.ar = [k \in RowIdx |-> [c \in ColIdx |->
                            IF <<k, c>> \in Cells(ncols, nrows)
                              THEN StrtodTenths(coef[<<k, c>>]) ELSE 0]],
                  !.rhs = [k \in RowIdx |-> IF k < nrows THEN StrtodTenths(rhs[k]) ELSE 0],
                  !.sense = [k \in RowIdx |-> IF k < nrows THEN sns[k] ELSE LE]]

\* the numerals of the files read here, in tenths
Tenths == {0, 1, 2, 3, 10}

\* the files read here have FloatCells cells at most
FloatShapes ==
  { sh \in (1 .. MaxCols) \X (1 .. MaxRows) : sh[1] * sh[2] <= FloatCells }

\* the BIPs with which bip_read returns 0 on these files: the guard has let
\* them pass and bip_preprocess has reordered and scaled the rows
FloatModels ==
  UNION { { FScaleRows(Reorder(FRead(sh[1], sh[2], coef, sns, rhs)).b) :
              coef \in [Cells(sh[1], sh[2]) -> Tenths],
              sns \in [0 .. (sh[2] - 1) -> {LE, GE, EQ}],
              rhs \in [0 .. (sh[2] - 1) -> Tenths] } : sh \in FloatShapes }

\* bip_is_feasible: lhs += bip->ar[r][c] over the columns from c on
RECURSIVE FRowLhs(_, _, _, _, _)
FRowLhs(b, k, w, c, lhs) ==
  IF c >= b.cols THEN lhs
  ELSE FRowLhs(b, k, w, c + 1, IF BitSet(w, c) THEN Fl(lhs + b.ar[k][c]) ELSE lhs)

\* fabs(lhs - rhs) > 1e-6: the model keeps 1e-6 above the rounding errors
\* of its sums, as it is in the program for numbers of this size
FExceedsTolerance(d) == Abs(Fl(d)) > FOne \div (2 ^ ToleranceBits)

\* the row test of bip_is_feasible
FRowInfeasible(b, k, w) ==
  LET lhs == FRowLhs(b, k, w, 0, 0)
  IN  \/ (b.sense[k] = EQ /\ FExceedsTolerance(lhs - b.rhs[k]))
      \/ (b.sense[k] = LE /\ lhs > b.rhs[k])
      \/ (b.sense[k] = GE /\ lhs < b.rhs[k])

\* bip_is_feasible
FBipIsFeasible(b, w) == \A k \in 0 .. (b.rows - 1) : ~FRowInfeasible(b, k, w)

\* check_feasibility
FCheckFeasibility(b, w, rr) ==
  IF ~BipIsValid(b)
    THEN [crash |-> "check_feasibility: bip_is_valid", found |-> 0]
  ELSE IF ScanResiduals(b, rr) < b.rows
    THEN [crash |-> "", found |-> 0]
  ELSE IF ~FBipIsFeasible(b, w)
    THEN [crash |-> "check_feasibility: bip_is_feasible", found |-> 0]
  ELSE [crash |-> "", found |-> 1]

\* r[k] += modcol[k] or r[k] -= modcol[k], rounded
FUpdateResiduals(b, rr, w, mask, modcol) ==
  [k \in RowIdx |->
     IF k >= b.rows THEN rr[k]
     ELSE IF And32(w, mask) # Zero32 THEN Fl(rr[k] + modcol[k])
     ELSE Fl(rr[k] - modcol[k])]

\* main after bip_read has returned 0
FloatInit ==
  /\ pc = "bip_enumerate"
  /\ bip \in FloatModels
  /\ mode = READ_COEF
  /\ errno = "0"
  /\ lines = 0
  /\ lfs = NoLfs
  /\ phase = READ_COEF
  /\ col = 0
  /\ ret = 0
  /\ x = Zero32
  /\ n = Zero32
  /\ negn = Zero32
  /\ r = ZeroCol
  /\ sol_count = 0
  /\ visited = <<>>
  /\ reported = <<>>
  /\ stages = <<"read", "guard", "preprocess">>
  /\ crash = ""
  /\ ExtIdle

\* bip_enumerate up to the loop
FEnumStart ==
  /\ pc = "bip_enumerate"
  /\ stages' = Append(stages, "enumerate")
  /\ IF ~BipIsValid(bip)
       THEN /\ pc' = "abort"
            /\ crash' = "bip_enumerate: bip_is_valid"
            /\ UNCHANGED enumv
     ELSE LET r0 == InitialResiduals(bip)
              cf == FCheckFeasibility(bip, Zero32, r0)
          IN  /\ x' = Zero32
              /\ n' = One32
              /\ r' = r0
              /\ visited' = <<Zero32>>
              /\ reported' = IF cf.found = 1 THEN <<Zero32>> ELSE <<>>
              /\ sol_count' = cf.found
              /\ negn' = NegnInit(bip.cols)
              /\ crash' = cf.crash
              /\ pc' = IF cf.crash = "" THEN "loop" ELSE "abort"
  /\ UNCHANGED <<bip, readv, ret, extv>>

\* bip_enumerate: one iteration of while (negn != 0)
FEnumStep ==
  /\ pc = "loop"
  /\ negn # Zero32
  /\ LET updatemask == UpdateMask(n, negn)
         colidx     == ColIndex(updatemask)
         x1         == Xor32(x, updatemask)
         r1         == FUpdateResiduals(bip, r, x1, updatemask, ModCol(bip, colidx))
         cf         == FCheckFeasibility(bip, x1, r1)
     IN  IF ~LoopAssertion(n, negn, bip.cols)
           THEN /\ pc' = "abort"
                /\ crash' = "bip_enumerate: n + negn"
                /\ UNCHANGED enumv
           ELSE /\ n' = Inc32(n)
                /\ negn' = Dec32(negn)
                /\ x' = x1
                /\ r' = r1
                /\ visited' = Append(visited, x1)
                /\ reported' = IF cf.found = 1 THEN Append(reported, x1) ELSE reported
                /\ sol_count' = sol_count + cf.found
                /\ crash' = cf.crash
                /\ pc' = IF cf.crash = "" THEN "loop" ELSE "abort"
  /\ UNCHANGED <<bip, readv, ret, stages, extv>>

FloatNext ==
  \/ FEnumStart
  \/ FEnumStep
  \/ EnumReturn
  \/ MainAfterEnumerate
  \/ BipExit

FloatSpec == FloatInit /\ [][FloatNext]_vars


(* ------- linear_program.c: the brute-force variant of exercise 6 ------- *)

\* enum constraint_type; EQ of linear_program.c is written LP_EQ here
LEQ == "LEQ"
LP_EQ == "EQ"
GEQ == "GEQ"

\* an unsigned long is a pair <<upper, lower>> of 32-bit words
Zero64 == <<Zero32, Zero32>>

\* 1UL << k for 0 <= k < 64
ShlOne64(k) == IF k < 32 THEN <<Zero32, Shl1(k)>> ELSE <<Shl1(k - 32), Zero32>>

\* a < b for 32-bit words
Less32(a, b) == a[1] < b[1] \/ (a[1] = b[1] /\ a[2] < b[2])

\* a < b for unsigned long
Less64(a, b) == Less32(a[1], b[1]) \/ (a[1] = b[1] /\ Less32(a[2], b[2]))

\* a + 1 for unsigned long
Inc64(a) ==
  IF a[2] = <<Half - 1, Half - 1>> THEN <<Inc32(a[1]), Zero32>> ELSE <<a[1], Inc32(a[2])>>

\* the usual arithmetic conversion of an unsigned int to unsigned long
ToLong(a) == <<Zero32, a>>

\* NextConfiguration when the carry stops after the first position
NextConfiguration_NoCarry(configuration, len) ==
  [j \in 0 .. (len - 1) |-> IF j = 0 THEN 1 - configuration[j] ELSE configuration[j]]

\* next_configuration: the entries up to the first 0 become 0, that 0
\* becomes 1; all become 0 when there is no 0
NextConfiguration(configuration, len) ==
  LET zeros == { j \in 0 .. (len - 1) : configuration[j] = 0 }
      first == IF zeros = {} THEN len ELSE CHOOSE j \in zeros : \A d \in zeros : j <= d
  IN  [j \in 0 .. (len - 1) |->
         IF j < first THEN 0 ELSE IF j = first THEN 1 ELSE configuration[j]]

\* FeasibleSum when a <= row is tested with vector <= sum
FeasibleSum_LeqStrict(sum, row, p) ==
  ~ \/ (p.constraint_types[row] = LEQ /\ p.vector[row] <= sum)
    \/ (p.constraint_types[row] = GEQ /\ p.vector[row] > sum)
    \/ (p.constraint_types[row] = LP_EQ /\ p.vector[row] # sum)

\* __is_feasible_sum
FeasibleSum(sum, row, p) ==
  ~ \/ (p.constraint_types[row] = LEQ /\ p.vector[row] < sum)
    \/ (p.constraint_types[row] = GEQ /\ p.vector[row] > sum)
    \/ (p.constraint_types[row] = LP_EQ /\ p.vector[row] # sum)

\* is_feasible: sum += configuration[j] * lp->matrix[i][j] from column j on
RECURSIVE RowSum(_, _, _, _, _)
RowSum(configuration, p, row, j, sum) ==
  IF j >= p.cols THEN sum
  ELSE RowSum(configuration, p, row, j + 1, sum + configuration[j] * p.matrix[row][j])

\* is_feasible
IsFeasible(configuration, p) ==
  \A row \in 0 .. (p.rows - 1) : FeasibleSum(RowSum(configuration, p, row, 0, 0), row, p)

\* the LinearProgram that new_lp_from_file builds from the file that gave
\* bip_read the BIP b; both hold the numbers of the file in units of 1/Unit
LpOf(b) ==
  [rows |-> b.rows, cols |-> b.cols,
   matrix |-> [k \in 0 .. (b.rows - 1) |-> [c \in 0 .. (b.cols - 1) |-> b.ar[k][c]]],
   vector |-> [k \in 0 .. (b.rows - 1) |-> b.rhs[k]],
   constraint_types |-> [k \in 0 .. (b.rows - 1) |->
                           IF b.sense[k] = LE THEN LEQ
                           ELSE IF b.sense[k] = GE THEN GEQ ELSE LP_EQ]]

\* the integers of the files read by both programs
SmallIntegers == {-Unit, 0, Unit, 2 * Unit}

\* the BIP after bip_read has read an integer file
IntRead(ncols, nrows, coef, sns, rhs) ==
  [BipInit EXCEPT !.cols = ncols, !.rows = nrows, !.read_rows = nrows,
                  !.ar = [k \in RowIdx |-> [c \in ColIdx |->
                            IF <<k, c>> \in Cells(ncols, nrows) THEN coef[<<k, c>>] ELSE 0]],
                  !.rhs = [k \in RowIdx |-> IF k < nrows THEN rhs[k] ELSE 0],
                  !.sense = [k \in RowIdx |-> IF k < nrows THEN sns[k] ELSE LE]]

\* the shapes of these files
IntShapes ==
  { sh \in (1 .. MaxCols) \X (1 .. MaxRows) : sh[1] * sh[2] <= MaxCells }

\* the BIPs with which bip_read returns 0 on these files
IntModels ==
  UNION { { ScaleRows(Reorder(IntRead(sh[1], sh[2], coef, sns, rhs)).b) :
              coef \in [Cells(sh[1], sh[2]) -> SmallIntegers],
              sns \in [0 .. (sh[2] - 1) -> {LE, GE, EQ}],
              rhs \in [0 .. (sh[2] - 1) -> SmallIntegers] } : sh \in IntShapes }

\* a file with 32 columns and the one row  0 ... 0 = 1
WideLp ==
  [rows |-> 1, cols |-> 32,
   matrix |-> [k \in {0} |-> [c \in 0 .. 31 |-> 0]],
   vector |-> [k \in {0} |-> Unit],
   constraint_types |-> [k \in {0} |-> LP_EQ]]

\* the configuration that binary counting reaches after v steps, v a
\* 32-bit word
ConfigurationOf(v, len) == [j \in 0 .. (len - 1) |-> IF BitSet(v, j) THEN 1 ELSE 0]

\* print_bin_solutions_lp at the head of its loop after v iterations on a
\* program without feasible configuration
LoopHeadAfter(v, p) ==
  [configuration |-> ConfigurationOf(v, p.cols), count |-> ShlOne64(p.cols),
   i |-> v, feasible_solutions |-> 0, printed |-> <<>>, checks |-> ToLong(v)]

\* the iterations followed here have a counter i within NaiveWindow of 0
\* or of 2^32
InWindow(v) ==
  \/ (v[1] = 0 /\ v[2] < NaiveWindow)
  \/ (v[1] = Half - 1 /\ v[2] >= Half - NaiveWindow)

\* print_bin_solutions_lp up to the loop
NaiveStart ==
  /\ pc = "print_bin_solutions_lp"
  /\ lp # NULL
  /\ naive' = << [configuration |-> [j \in 0 .. (lp[1].cols - 1) |-> 0],
                  count |-> ShlOne64(lp[1].cols),
                  i |-> Zero32,
                  feasible_solutions |-> 0,
                  printed |-> <<>>,
                  checks |-> Zero64] >>
  /\ pc' = "for"
  /\ UNCHANGED <<bip, readv, ret, enumv, stages, crash, splitv, lookup, lp>>

\* print_bin_solutions_lp: one iteration of for (i = 0; i < count; i++);
\* checks counts the calls of is_feasible
NaiveCheck ==
  /\ pc = "for"
  /\ Less64(ToLong(naive[1].i), naive[1].count)
  /\ InWindow(naive[1].i)
  /\ LET nv   == naive[1]
         feas == IsFeasible(nv.configuration, lp[1])
     IN  naive' = << [nv EXCEPT
                        !.printed = IF feas THEN Append(@, nv.configuration) ELSE @,
                        !.feasible_solutions = IF feas THEN @ + 1 ELSE @,
                        !.configuration = NextConfiguration(@, lp[1].cols),
                        !.i = Inc32(@),
                        !.checks = Inc64(@)] >>
  /\ UNCHANGED <<pc, bip, readv, ret, enumv, stages, crash, splitv, lookup, lp>>

\* print_bin_solutions_lp: the loop ends
NaiveExit ==
  /\ pc = "for"
  /\ ~Less64(ToLong(naive[1].i), naive[1].count)
  /\ pc' = "naive_done"
  /\ UNCHANGED <<bip, readv, ret, enumv, stages, crash, extv>>

\* the variables of bip.c before any call
BipIdle ==
  /\ bip = BipInit
  /\ mode = READ_COLS
  /\ errno = "0"
  /\ lines = 0
  /\ lfs = NoLfs
  /\ phase = READ_COLS
  /\ col = 0
  /\ ret = 0
  /\ x = Zero32
  /\ n = Zero32
  /\ negn = Zero32
  /\ r = ZeroCol
  /\ sol_count = 0
  /\ visited = <<>>
  /\ reported = <<>>
  /\ stages = <<>>
  /\ crash = ""

\* main of exercise 6 after new_lp_from_file: at the call of
\* print_bin_solutions_lp, or, on the file with 32 columns, in its loop
\* just before the counter i has run through all 32-bit values
NaiveInit ==
  /\ BipIdle
  /\ split = NULL /\ arg = <<>> /\ spos = 0 /\ lookup = NoLookup
  /\ \/ /\ pc = "print_bin_solutions_lp"
        /\ lp \in { <<p>> : p \in { LpOf(b) : b \in IntModels } \cup {WideLp} }
        /\ naive = NULL
     \/ /\ pc = "for"
        /\ lp = <<WideLp>>
        /\ naive \in { <<LoopHeadAfter(<<Half - 1, Half - v>>, WideLp)>> : v \in 1 .. NaiveWindow }

NaiveNext ==
  \/ NaiveStart
  \/ NaiveCheck
  \/ NaiveExit

NaiveSpec == NaiveInit /\ [][NaiveNext]_vars

\* both programs on one file: main of exercise 7 after bip_read
CompareInit ==
  /\ pc = "bip_enumerate"
  /\ bip \in IntModels
  /\ mode = READ_COEF
  /\ errno = "0"
  /\ lines = 0
  /\ lfs = NoLfs
  /\ phase = READ_COEF
  /\ col = 0
  /\ ret = 0
  /\ x = Zero32
  /\ n = Zero32
  /\ negn = Zero32
  /\ r = ZeroCol
  /\ sol_count = 0
  /\ visited = <<>>
  /\ reported = <<>>
  /\ stages = <<"read", "guard", "preprocess">>
  /\ crash = ""
  /\ ExtIdle

\* the brute-force program is started on the file that bip_enumerate has
\* just finished
NaiveLoad ==
  /\ pc = "enum_ret"
  /\ lp' = <<LpOf(bip)>>
  /\ pc' = "print_bin_solutions_lp"
  /\ UNCHANGED <<bip, readv, ret, enumv, stages, crash, splitv, lookup, naive>>

CompareNext ==
  \/ EnumStart
  \/ EnumStep
  \/ EnumReturn
  \/ NaiveLoad
  \/ NaiveStart
  \/ NaiveCheck
  \/ NaiveExit

CompareSpec == CompareInit /\ [][CompareNext]_vars


(* ------------------- splitline.c: lfs_split_line ----------------------- *)

\* #define LFS_INITIAL_SIZE 100
LFS_INITIAL_SIZE == 100

\* a character of a line is modelled by a string; BEL stands for a control
\* character that is no white space
BEL == "BEL"

\* the characters of the lines of the model
Chars == {"a", "b", " ", "\n", "#", BEL}

\* isprint and isspace in the C locale, on the characters of the model
IsPrint(ch) == ch \notin {"\n", BEL}

IsSpace(ch) == ch \in {" ", "\n"}

\* a field pointer into a line that has been freed
Dangling == "dangling"

\* strpbrk(line, comment): the position of the first character of the line
\* that is in comment, 0 for NULL
Strpbrk(l, comment) ==
  LET hits == { s \in 1 .. Len(l) : l[s] \in comment }
  IN  IF hits = {} THEN 0 ELSE CHOOSE s \in hits : \A t \in hits : s <= t

\* Clip when no character starts a comment
Clip_NoComment(l, comment) == l


\* s = strpbrk(lfs->line, comment); if (NULL != s) *s = '\0'
Clip(l, comment) ==
  LET s == Strpbrk(l, comment)
  IN  IF s # 0 THEN SubSeq(l, 1, s - 1) ELSE l

\* for (s = lfs->line; *s != '\0'; s++) if (!isprint(*s)) *s = ' '
Unprint(l) == [s \in 1 .. Len(l) |-> IF ~IsPrint(l[s]) THEN " " ELSE l[s]]

\* while (isspace(*s)) s++: the position it stops at, Len(l) + 1 being the
\* terminating '\0'
RECURSIVE SkipSpace(_, _)
SkipSpace(l, s) ==
  IF s <= Len(l) /\ IsSpace(l[s]) THEN SkipSpace(l, s + 1) ELSE s

\* while (*s != '\0' && !isspace(*s)) s++
RECURSIVE SkipField(_, _)
SkipField(l, s) ==
  IF s <= Len(l) /\ ~IsSpace(l[s]) THEN SkipField(l, s + 1) ELSE s

\* is_valid(lfs); lfs->line and lfs->field are set whenever lfs is
IsValid(p) ==
  /\ p # NULL
  /\ ~(p[1].size < LFS_INITIAL_SIZE \/ p[1].size < p[1].used \/ p[1].used < 0)

\* lfs->field[lfs->used] = s; lfs->used++: the field array is modelled by the
\* sequence of its entries that have ever been set
StoreField(f, tok) ==
  [f EXCEPT !.field = IF f.used < Len(f.field) THEN [f.field EXCEPT ![f.used + 1] = tok]
                      ELSE Append(f.field, tok),
            !.used = f.used + 1]

\* lfs_split_line: one iteration of while (*s != '\0') at position s of the
\* line l: the LFS and the position after it
SplitIter(f, l, s) ==
  IF ~(f.used <= f.size) THEN [f |-> [f EXCEPT !.crash = "lfs_split_line: used <= size"], s |-> s]
  ELSE IF IsSpace(l[s]) THEN [f |-> [f EXCEPT !.crash = "lfs_split_line: !isspace(*s)"], s |-> s]
  ELSE LET grown == IF f.used = f.size THEN [f EXCEPT !.size = f.size * 2] ELSE f
           e     == SkipField(l, s)
       IN  [f |-> StoreField(grown, SubSeq(l, s, e - 1)),
            s |-> IF e <= Len(l) THEN SkipSpace(l, e + 1) ELSE e]

\* FreshLfs when a used LFS keeps its used count
FreshLfs_UsedKept(old) ==
  IF old = NULL
    THEN [size |-> LFS_INITIAL_SIZE, used |-> 0, field |-> <<>>, line |-> <<>>, crash |-> ""]
  ELSE old[1]


\* the LFS that lfs_split_line starts with: a new one when lfs is NULL,
\* else the old one with used = 0 and its line freed
FreshLfs(old) ==
  IF old = NULL
    THEN [size |-> LFS_INITIAL_SIZE, used |-> 0, field |-> <<>>, line |-> <<>>, crash |-> ""]
  ELSE IF ~IsValid(old) THEN [old[1] EXCEPT !.crash = "lfs_split_line: is_valid"]
  ELSE [old[1] EXCEPT !.used = 0,
                      !.field = [k \in 1 .. Len(old[1].field) |-> Dangling]]

\* lfs_split_line: the while loop from position s of the line l to its end
RECURSIVE SplitLoop(_, _, _)
SplitLoop(f, l, s) ==
  IF s > Len(l) \/ f.crash # "" THEN f
  ELSE LET it == SplitIter(f, l, s) IN SplitLoop(it.f, l, it.s)

\* lfs_split_line(lfs, line, comment) as a function: the LFS it returns
LfsSplitLine(old, l, comment) ==
  LET f0  == FreshLfs(old)
      cut == Unprint(Clip(l, comment))
  IN  SplitLoop([f0 EXCEPT !.line = cut], cut, SkipSpace(cut, 1))


\* the lines of the model: all lines of at most MaxLineLen characters, and
\* one line with LFS_INITIAL_SIZE + 1 fields
LongLine == [s \in 1 .. (2 * (LFS_INITIAL_SIZE + 1)) |-> IF s % 2 = 1 THEN "a" ELSE " "]

Lines == UNION { [1 .. len -> Chars] : len \in 0 .. MaxLineLen } \cup {LongLine}

\* a caller of splitline.h that holds no LFS
SplitInit ==
  /\ pc = "caller"
  /\ bip = BipInit
  /\ mode = READ_COLS
  /\ errno = "0"
  /\ lines = 0
  /\ lfs = NoLfs
  /\ phase = READ_COLS
  /\ col = 0
  /\ ret = 0
  /\ x = Zero32
  /\ n = Zero32
  /\ negn = Zero32
  /\ r = ZeroCol
  /\ sol_count = 0
  /\ visited = <<>>
  /\ reported = <<>>
  /\ stages = <<>>
  /\ crash = ""
  /\ ExtIdle

\* the caller reads a line and calls lfs_split_line(lfs, s, "#"), as the loop
\* of bip_read does; lfs_split_line up to its while loop
SplitCall ==
  /\ pc = "caller"
  /\ lines < MaxSplits
  /\ lines' = lines + 1
  /\ \E l \in Lines :
       LET f0  == FreshLfs(split)
           cut == Unprint(Clip(l, {"#"}))
       IN  /\ arg' = l
           /\ IF f0.crash # ""
                THEN /\ pc' = "abort"
                     /\ crash' = f0.crash
                     /\ UNCHANGED <<split, spos>>
                ELSE /\ pc' = "lfs_while"
                     /\ crash' = crash
                     /\ split' = <<[f0 EXCEPT !.line = cut]>>
                     /\ spos' = SkipSpace(cut, 1)
  /\ UNCHANGED <<bip, mode, errno, lfs, phase, col, ret, enumv, stages, lookup, naivev>>

\* lfs_split_line: one iteration of while (*s != '\0')
SplitField ==
  /\ pc = "lfs_while"
  /\ spos <= Len(split[1].line)
  /\ LET it == SplitIter(split[1], split[1].line, spos)
     IN  /\ split' = <<it.f>>
         /\ spos' = it.s
         /\ crash' = it.f.crash
         /\ pc' = IF it.f.crash = "" THEN pc ELSE "abort"
  /\ UNCHANGED <<bip, readv, ret, enumv, stages, arg, lookup, naivev>>

\* lfs_split_line: *s is '\0', return lfs
SplitReturn ==
  /\ pc = "lfs_while"
  /\ ~(spos <= Len(split[1].line))
  /\ pc' = "caller"
  /\ UNCHANGED <<bip, readv, ret, enumv, stages, crash, splitv, lookup, naivev>>

\* lfs_free(lfs)
SplitFree ==
  /\ pc = "caller"
  /\ split # NULL
  /\ IF IsValid(split)
       THEN pc' = pc /\ crash' = crash /\ split' = NULL
       ELSE pc' = "abort" /\ crash' = "lfs_free: is_valid" /\ split' = split
  /\ UNCHANGED <<bip, readv, ret, enumv, stages, arg, spos, lookup, naivev>>

SplitNext ==
  \/ SplitCall
  \/ SplitField
  \/ SplitReturn
  \/ SplitFree

SplitSpec == SplitInit /\ [][SplitNext]_vars

(* ------------------------------ properties ----------------------------- *)

\* the elements of a sequence, and whether no element occurs twice
SeqSet(sq) == { sq[i] : i \in 1 .. Len(sq) }

Distinct(sq) == \A i, j \in 1 .. Len(sq) : i # j => sq[i] # sq[j]

\* the bit vectors over the low c bits, c < 31
AllVectors(c) == { U32(v) : v \in 0 .. ((2 ^ c) - 1) }

\* bit c of the unsigned int w, as 0 or 1
Bit(w, c) == IF c < 16 THEN (w[2] \div (2 ^ c)) % 2 ELSE (w[1] \div (2 ^ (c - 16))) % 2

\* the sum of f[c] over the columns c .. cols-1 whose bit is set in w
RECURSIVE DotFrom(_, _, _, _)
DotFrom(f, w, c, ncols) ==
  IF c >= ncols THEN 0 ELSE Bit(w, c) * f[c] + DotFrom(f, w, c + 1, ncols)

Started == "enumerate" \in SeqSet(stages)

\* bip_enumerate has returned to main
EnumFinished == Started /\ pc \in {"enum_ret", "bip_exit", "done"}

\* C1: bip_enumerate passes each of the 2^cols bit vectors over the low cols
\* bits to the feasibility check exactly once: no vector is passed twice,
\* none outside the low cols bits, no assertion stops the run, and when
\* bip_enumerate has returned every vector has been passed.
C1_EachAssignmentOnce ==
  (Started /\ bip.cols \in 1 .. BIP_MAX_COLS) =>
    /\ crash = ""
    /\ Distinct(visited)
    /\ SeqSet(visited) \subseteq AllVectors(bip.cols)
    /\ EnumFinished => /\ SeqSet(visited) = AllVectors(bip.cols)
                       /\ Len(visited) = 2 ^ bip.cols

C1_Witness == EnumFinished /\ bip.cols = MaxCols /\ Len(visited) = 2 ^ MaxCols

\* C2: every visited assignment after the first differs from the one visited
\* just before it in exactly one bit, and that bit is one of the low cols bits.
C2_ConsecutiveDifferInOneBit ==
  \A i \in 2 .. Len(visited) :
    \E j \in 0 .. (bip.cols - 1) : Xor32(visited[i - 1], visited[i]) = Shl1(j)

C2_Witness ==
  /\ pc = "loop"
  /\ bip.cols = MaxCols
  /\ Len(visited) = (2 ^ (MaxCols - 1)) + 1
  /\ Xor32(visited[Len(visited) - 1], visited[Len(visited)]) = Shl1(MaxCols - 1)

\* the coefficients and right-hand sides of the model are integers
IntegerModel(b) ==
  \A k \in 0 .. (b.rows - 1) :
    /\ b.rhs[k] % Unit = 0
    /\ \A c \in 0 .. (b.cols - 1) : b.ar[k][c] % Unit = 0

\* w satisfies row k as written in the input
SatisfiesRow(b, k, w) ==
  LET lhs == DotFrom(b.ar[k], w, 0, b.cols)
  IN  CASE b.sense[k] = LE -> lhs <= b.rhs[k]
        [] b.sense[k] = GE -> lhs >= b.rhs[k]
        [] b.sense[k] = EQ -> lhs = b.rhs[k]

FeasibleSet(b) ==
  { w \in AllVectors(b.cols) : \A k \in 0 .. (b.rows - 1) : SatisfiesRow(b, k, w) }

\* the input  3 / 1 / 1 1 1 <= 2
ExampleLe ==
  /\ bip.cols = 3 /\ bip.rows = 1
  /\ bip.sense[0] = LE /\ bip.rhs[0] = 2 * Unit
  /\ \A c \in 0 .. 2 : bip.ar[0][c] = Unit

\* the input  2 / 1 / 1 1 = 1
ExampleEq ==
  /\ bip.cols = 2 /\ bip.rows = 1
  /\ bip.sense[0] = EQ /\ bip.rhs[0] = Unit
  /\ \A c \in 0 .. 1 : bip.ar[0][c] = Unit

\* C3: for a loaded model with integer coefficients and right-hand sides the
\* Reporter is called exactly once for each visited assignment that satisfies
\* every constraint as written and for no other, and bip_enumerate returns
\* the number of feasible assignments: 7 of 8 for 1 1 1 <= 2, exactly
\* {01, 10} for 1 1 = 1.
C3_ReportsExactlyTheFeasible ==
  (Started /\ IntegerModel(bip)) =>
    /\ crash = ""
    /\ Distinct(reported)
    /\ SeqSet(reported) = SeqSet(visited) \cap FeasibleSet(bip)
    /\ sol_count = Len(reported)
    /\ EnumFinished =>
         /\ SeqSet(reported) = FeasibleSet(bip)
         /\ sol_count = Cardinality(FeasibleSet(bip))
         /\ ExampleLe => sol_count = 7 /\ SeqSet(reported) = AllVectors(3) \ {U32(7)}
         /\ ExampleEq => sol_count = 2 /\ SeqSet(reported) = {U32(1), U32(2)}

C3_Witness == EnumFinished /\ ExampleLe /\ sol_count = 7

\* the residual of row k recomputed from scratch for the bit vector w
Recomputed(b, k, w) ==
  DotFrom([c \in ColIdx |-> b.ac[c][k]], w, 0, b.cols) - b.rhs_ord[k]

C5_NoAssertionFails ==
  /\ crash = ""
  /\ pc # "abort"
  /\ pc = "bip_exit" => BipIsValid(bip)

\* C6: the stages run in the order load, Overflow Guard, Preprocessor,
\* enumeration, each at most once and only after the previous one succeeded:
\* no guard and no preprocessor after a parse error or an unexpected end of
\* file, no preprocessor after an overflow error, no enumeration unless
\* bip_read returned success.
C6_StagesInOrder ==
  /\ \E m \in 0 .. 4 : stages = SubSeq(<<"read", "guard", "preprocess", "enumerate">>, 1, m)
  /\ mode = READ_ERROR => "guard" \notin SeqSet(stages)
  /\ "guard" \in SeqSet(stages) =>
       /\ mode = READ_COEF
       /\ bip.cols # 0 /\ bip.rows # 0 /\ bip.read_rows = bip.rows
  /\ "preprocess" \in SeqSet(stages) => ~BipCanOverflow(bip)
  /\ Started => ret = 0
  /\ pc \in {"bip_exit", "done"} /\ ret # 0 => ~Started

C6_Witness ==
  /\ pc = "bip_exit"
  /\ stages = <<"read", "guard">>
  /\ BipCanOverflow(bip)
  /\ ret = -1

\* the field denotes a number outside 1 .. maxv
DimOutside(tok, maxv) ==
  \/ tok.k = "num" /\ (tok.v < Unit \/ tok.v > maxv * Unit)
  \/ tok.k = "2147483648"

\* the field denotes a non-finite number or one outside [minCoef, maxCoef]
CoefOutside(tok) ==
  \/ tok.k \in {"nan", "inf", "1e999"}
  \/ tok.k = "num" /\ (tok.v < MinCoefVal \/ tok.v > MaxCoefVal)
  \/ tok.k = "2147483648"

\* the field count process_line expects in mode m
ExpectedFields(m) == IF m = READ_COEF THEN bip.cols + 2 ELSE 1

\* a step of bip_read that hands one more line to process_line
LineStep == pc = "fgets" /\ lines' = lines + 1

\* a step of process_line that looks at one more field of a data line
FieldStep == pc = "field" /\ Len(lfs'.seen) = Len(lfs.seen) + 1

\* C7: loading fails (process_line yields READ_ERROR, bip_read returns -1)
\* whenever a significant line has the wrong field count for the parse phase,
\* a coefficient or rhs is non-finite or outside [minCoef, maxCoef], the sense
\* is none of <=, >=, =, ==, a data row arrives after rows rows were read, or
\* cols is outside 1..32 or rows outside 1..128; and once READ_ERROR is
\* reached no further line is processed.
C7_LoadFailsOnBadLine ==
  [][ /\ (LineStep /\ lfs'.used > 0 /\ lfs'.used # ExpectedFields(mode))
           => mode' = READ_ERROR
      /\ (LineStep /\ mode = READ_COLS /\ lfs'.used = 1
            /\ DimOutside(lfs'.seen[1], BIP_MAX_COLS)) => mode' = READ_ERROR
      /\ (LineStep /\ mode = READ_ROWS /\ lfs'.used = 1
            /\ DimOutside(lfs'.seen[1], BIP_MAX_ROWS)) => mode' = READ_ERROR
      /\ (LineStep /\ mode = READ_COEF /\ lfs'.used > 0
            /\ bip.read_rows >= bip.rows) => mode' = READ_ERROR
      /\ (FieldStep /\ col # bip.cols /\ CoefOutside(lfs'.seen[Len(lfs'.seen)]))
           => mode' = READ_ERROR
      /\ (FieldStep /\ col = bip.cols
            /\ lfs'.seen[Len(lfs'.seen)].k \notin {"<=", ">=", "=", "=="})
           => mode' = READ_ERROR
      /\ (pc = "fgets" /\ mode = READ_ERROR)
           => /\ lines' # lines + 1
              /\ bip' = bip
              /\ mode' = READ_ERROR
              /\ pc' # pc => pc' = "main_ret" /\ ret' = -1
    ]_vars

\* the increasing sequence of the elements of a finite set of numbers
RECURSIVE SeqOf(_)
SeqOf(S) ==
  IF S = {} THEN <<>>
  ELSE LET m == CHOOSE e \in S : \A d \in S : e <= d
       IN  <<m>> \o SeqOf(S \ {m})

RowsWith(b, sn) == { k \in 0 .. (b.rows - 1) : b.sense[k] = sn }

SignOf(b, p) == IF b.sense[p] = GE THEN -1 ELSE 1

\* permuted row i holds original row p multiplied by sign
RowCopied(b, i, p, sign) ==
  /\ b.rhs_ord[i] = sign * b.rhs[p]
  /\ \A c \in 0 .. (b.cols - 1) : b.ac[c][i] = sign * b.ar[p][c]

\* the permuted rows are the original rows in the order given, with the
\* rows that were >= negated
LaidOutAs(b, order) ==
  \A i \in 1 .. b.rows : RowCopied(b, i - 1, order[i], SignOf(b, order[i]))

\* bip_preprocess has reordered the rows and not yet scaled them
Reordered == pc = "scale"

TargetOf(b, p) ==
  IF b.sense[p] = EQ
    THEN Cardinality({ q \in RowsWith(b, EQ) : q < p })
    ELSE Cardinality(RowsWith(b, EQ))
           + Cardinality({ q \in 0 .. (p - 1) : b.sense[q] # EQ })

\* C9: after the reordering, before scaling, every original = row sits at
\* the index given by the = rows before it and every other row behind all
\* = rows at the index given by the non-= rows before it; >= rows have
\* coefficients and rhs negated, all other rows are copied unchanged; equs
\* is the number of = rows and rows 0..equs-1 are exactly the = rows.
C9_EqualitiesFirstOrderKept ==
  Reordered =>
    /\ \A p \in 0 .. (bip.rows - 1) : RowCopied(bip, TargetOf(bip, p), p, SignOf(bip, p))
    /\ bip.equs = Cardinality(RowsWith(bip, EQ))
    /\ { TargetOf(bip, p) : p \in RowsWith(bip, EQ) } = 0 .. (bip.equs - 1)

C9_Witness ==
  /\ Reordered
  /\ bip.rows = 2
  /\ bip.sense[0] = GE /\ bip.sense[1] = EQ
  /\ bip.equs = 1
  /\ bip.ar[0][0] # 0 /\ bip.ar[1][0] # 0 /\ bip.ar[0][0] # bip.ar[1][0]

\* bip_preprocess has returned
Preprocessed == "preprocess" \in SeqSet(stages) /\ pc # "scale" /\ pc # "abort"

\* the least e >= 0 such that 10^e makes every coefficient of permuted row k
\* of b integral
LeastIntegralExponent(b, k) ==
  CHOOSE e \in 0 .. FracDigits :
    /\ \A c \in 0 .. (b.cols - 1) : (b.ac[c][k] * (10 ^ e)) % Unit = 0
    /\ \A d \in 0 .. (e - 1) : \E c \in 0 .. (b.cols - 1) : (b.ac[c][k] * (10 ^ d)) % Unit # 0

\* C10: the scaling step multiplies the coefficients and the rhs of each
\* permuted row by the smallest power of ten that makes every coefficient of
\* the row integral, so that afterwards no columnMatrix entry has a
\* fractional part; a row whose coefficients are all integral is unchanged.
C10_ScaledToIntegers ==
  Preprocessed =>
    LET pre == Reorder(bip).b
    IN  \A k \in 0 .. (bip.rows - 1) :
          LET f == 10 ^ LeastIntegralExponent(pre, k)
          IN  /\ bip.rhs_ord[k] = pre.rhs_ord[k] * f
              /\ \A c \in 0 .. (bip.cols - 1) :
                   /\ bip.ac[c][k] = pre.ac[c][k] * f
                   /\ bip.ac[c][k] % Unit = 0

\* check_feasibility's verdict on permuted row k of b for the bit vector w:
\* residual zero for an equality row, not positive for an inequality row
RowAccepted(b, k, w) ==
  IF k < b.equs THEN Recomputed(b, k, w) = 0 ELSE Recomputed(b, k, w) <= 0

RECURSIVE SignedSumFrom(_, _, _, _)
SignedSumFrom(b, k, c, sign) ==
  IF c >= b.cols THEN 0
  ELSE (IF sign * b.ar[k][c] > 0 THEN b.ar[k][c] ELSE 0) + SignedSumFrom(b, k, c + 1, sign)

PosSum(b, k) == SignedSumFrom(b, k, 0, 1)
NegSum(b, k) == SignedSumFrom(b, k, 0, -1)

\* bip_can_overflow has been called
GuardRan == "guard" \in SeqSet(stages)

\* C12: bip_can_overflow returns true for a model with a row whose sum of
\* positive coefficients exceeds maxCoef or whose sum of negative
\* coefficients is below minCoef, and false when in every row the sum of the
\* positive coefficients is at most maxCoef minus one unit and the sum of the
\* negative ones at least minCoef plus one unit.
C12_GuardBoundary ==
  GuardRan =>
    /\ (\E k \in 0 .. (bip.rows - 1) :
          PosSum(bip, k) > MaxCoefVal \/ NegSum(bip, k) < MinCoefVal)
         => ret = -1 /\ pc = "main_ret"
    /\ (\A k \in 0 .. (bip.rows - 1) :
          PosSum(bip, k) <= MaxCoefVal - Unit /\ NegSum(bip, k) >= MinCoefVal + Unit)
         => ret = 0 /\ pc = "preprocess"

C12_Witness ==
  /\ GuardRan
  /\ ret = 0
  /\ PosSum(bip, 0) = MaxCoefVal - Unit
  /\ NegSum(bip, 0) = MinCoefVal + Unit

\* the guard has rejected the model: bip_can_overflow returned true and
\* bip_read returns -1
GuardRejected == ret = -1 /\ pc = "main_ret"

\* C13 as stated: bip_can_overflow fails exactly when in some row the running
\* sum of the positive coefficients is pushed past maxCoef or that of the
\* negative coefficients past minCoef (the running sums grow monotonically,
\* so this is the case exactly when the full sums are past the limits); a
\* row whose sums stay within [minCoef, maxCoef] inclusive is accepted.
C13_RejectsIffPastLimit ==
  GuardRan =>
    (GuardRejected <=>
       \E k \in 0 .. (bip.rows - 1) :
         PosSum(bip, k) > MaxCoefVal \/ NegSum(bip, k) < MinCoefVal)

\* C13 as amended: bip_can_overflow fails exactly when in some row the
\* running sum of the positive coefficients reaches or passes maxCoef
\* (row_max + val >= maxCoef) or that of the negative coefficients reaches
\* or passes minCoef; only rows whose sums stay strictly between minCoef and
\* maxCoef are accepted.
C13_RejectsIffLimitReached ==
  GuardRan =>
    (GuardRejected <=>
       \E k \in 0 .. (bip.rows - 1) :
         PosSum(bip, k) >= MaxCoefVal \/ NegSum(bip, k) <= MinCoefVal)

C13_Witness ==
  /\ GuardRan
  /\ GuardRejected
  /\ bip.rows = 2
  /\ PosSum(bip, 0) = Unit /\ NegSum(bip, 0) = 0
  /\ PosSum(bip, 1) = MaxCoefVal /\ NegSum(bip, 1) = 0

\* C14: for every model that passed the Overflow Guard and was preprocessed,
\* every residual r[k] held at any step of bip_enumerate lies within
\* [minCoef, maxCoef].
C14_ResidualsInRange ==
  (Started /\ visited # <<>>) =>
    \A k \in 0 .. (bip.rows - 1) : r[k] >= MinCoefVal /\ r[k] <= MaxCoefVal

\* the largest unsigned int, 2^32 - 1
Max32 == <<Half - 1, Half - 1>>

\* 2^c modulo 2^32
Pow2Mod32(c) == IF c < 32 THEN Shl1(c) ELSE Zero32

\* the state of the loop of bip_enumerate after Len(visited) - 1 flips:
\* n has counted the checks, n + negn is 2^cols modulo 2^32, and no more than
\* 2^cols checks were made
LoopCounts ==
  (pc \in {"loop", "enum_ret"} /\ bip.cols >= 1) =>
    /\ n = U32(Len(visited))
    /\ Add32(n, negn) = Pow2Mod32(bip.cols)
    /\ Len(visited) <= 2 ^ bip.cols
    /\ pc = "enum_ret" => Len(visited) = 2 ^ bip.cols /\ negn = Zero32

\* the counters for cols = 32: negn starts at 2^32 - 1 with n = 1, so that
\* n + negn is 0 modulo 2^32, and the last ++n wraps n to 0 as --negn
\* reaches 0
WrapAt32 ==
  /\ NegnInit(BIP_MAX_COLS) = Max32
  /\ Add32(One32, NegnInit(BIP_MAX_COLS)) = Pow2Mod32(BIP_MAX_COLS)
  /\ LoopAssertion(One32, NegnInit(BIP_MAX_COLS), BIP_MAX_COLS)
  /\ Inc32(Max32) = Zero32
  /\ Dec32(One32) = Zero32
  /\ LoopAssertion(Max32, One32, BIP_MAX_COLS)

\* C15: the loop of bip_enumerate terminates, after exactly 2^cols - 1 flips
\* following the check of x = 0 (2^cols feasibility checks in all); for
\* cols = 32 the count n wraps to 0 at the last step.
C15_LoopTerminates ==
  /\ [](LoopCounts /\ WrapAt32)
  /\ (pc = "loop") ~> (pc = "enum_ret")

C15_Witness ==
  /\ pc = "enum_ret"
  /\ bip.cols = MaxCols
  /\ Len(visited) = 2 ^ MaxCols
  /\ n = U32(2 ^ MaxCols)
  /\ negn = Zero32

\* C16: when cols = 0 (a BIP on which no file was loaded) bip_enumerate
\* returns 0 at once, without calling the Reporter and without error.
C16_NoColumnsReturnsZero ==
  [][ (pc = "bip_enumerate" /\ bip.cols = 0) =>
        /\ pc' = "enum_ret"
        /\ sol_count' = 0
        /\ reported' = <<>>
        /\ visited' = <<>>
        /\ crash' = ""
    ]_vars

C16_Witness ==
  /\ pc = "enum_ret"
  /\ bip.cols = 0
  /\ stages[Len(stages)] = "enumerate"
  /\ sol_count = 0

\* the executions of bip_preprocess so far
Preprocessings == Cardinality({ i \in 1 .. Len(stages) : stages[i] = "preprocess" })

\* C17: whatever calls of bip_read, bip_enumerate and bip_exit are made on
\* one instance after bip_init, bip_preprocess executes at most once on it.
C17_PreprocessAtMostOnce == Preprocessings <= 1

\* C18: from bip_init until bip_preprocess has run, also after a failed
\* load, equs holds the sentinel -1, distinct from every equality count
\* 0..rows.
C18_EqusUnsetBeforePreprocess ==
  "preprocess" \notin SeqSet(stages) => bip.equs = -1

\* C19: bip_enumerate and check_feasibility leave the model unchanged: from
\* entry to return of bip_enumerate cols, rows, matrix, rhs, sense, equs,
\* columnMatrix and reorderedRhs keep their values; only x, n, negn, the
\* residuals and the solution counter change.
C19_EnumerateLeavesModelUnchanged ==
  [][ (pc \in {"bip_enumerate", "loop"}) => UNCHANGED <<bip, readv, ret>> ]_vars

C19_Witness ==
  /\ pc = "loop"
  /\ Len(visited) >= 3
  /\ x # Zero32
  /\ sol_count >= 1
  /\ \E k \in 0 .. (bip.rows - 1) : r[k] # -bip.rhs_ord[k]

\* C20: after a successful bip_read every stored coefficient and right-hand
\* side lies in [minCoef, maxCoef]: every entry of matrix and rhs, and every
\* entry of columnMatrix and reorderedRhs that preprocessing produced.
C20_StoredValuesInRange ==
  (Preprocessed /\ ret = 0) =>
    \A k \in 0 .. (bip.rows - 1) :
      /\ bip.rhs[k] >= MinCoefVal /\ bip.rhs[k] <= MaxCoefVal
      /\ bip.rhs_ord[k] >= MinCoefVal /\ bip.rhs_ord[k] <= MaxCoefVal
      /\ \A c \in 0 .. (bip.cols - 1) :
           /\ bip.ar[k][c] >= MinCoefVal /\ bip.ar[k][c] <= MaxCoefVal
           /\ bip.ac[c][k] >= MinCoefVal /\ bip.ac[c][k] <= MaxCoefVal


\* the cells of the loaded model, as <<row, column>>
LoadedCells(b) == (0 .. (b.rows - 1)) \X (0 .. (b.cols - 1))

\* C21: after a successful bip_read, matrix[p][c] is nonzero exactly when
\* columnMatrix[c][perm(p)] is nonzero, for every original row p and column
\* c, perm being the row permutation applied by bip_preprocess; so both
\* forms have the same number of nonzero entries.
C21_SameNonzeroSet ==
  (Preprocessed /\ ret = 0) =>
    /\ \A e \in LoadedCells(bip) :
         (bip.ar[e[1]][e[2]] # 0) <=> (bip.ac[e[2]][TargetOf(bip, e[1])] # 0)
    /\ Cardinality({ e \in LoadedCells(bip) : bip.ar[e[1]][e[2]] # 0 })
         = Cardinality({ e \in LoadedCells(bip) : bip.ac[e[2]][e[1]] # 0 })

C21_Witness ==
  /\ Preprocessed /\ ret = 0
  /\ bip.rows = 2 /\ bip.cols = 1
  /\ bip.sense[0] = GE /\ bip.sense[1] = EQ
  /\ bip.ar[0][0] = Unit \div 4 /\ bip.ar[1][0] = 0
  /\ bip.ac[0][0] = 0 /\ bip.ac[0][1] # 0


\* the characters that separate fields: white space and what isprint rejects
Separator(ch) == IsSpace(ch) \/ ~IsPrint(ch)

\* the length of the part of the line l before its first comment character
Significant(l) ==
  IF \E s \in 1 .. Len(l) : l[s] = "#"
    THEN (CHOOSE s \in 1 .. Len(l) : l[s] = "#" /\ \A t \in 1 .. (s - 1) : l[t] # "#") - 1
    ELSE Len(l)

\* the positions at which a maximal run of non-separators of the
\* significant part of l starts, and the position at which the run ends
TokenStarts(l) ==
  { a \in 1 .. Significant(l) : ~Separator(l[a]) /\ (a = 1 \/ Separator(l[a - 1])) }

TokenEnd(l, a) ==
  CHOOSE e \in a .. Significant(l) :
    /\ \A t \in a .. e : ~Separator(l[t])
    /\ e = Significant(l) \/ Separator(l[e + 1])

\* the maximal separator-free runs of the significant part of l, in order
Tokens(l) ==
  LET starts == SeqOf(TokenStarts(l))
  IN  [k \in 1 .. Len(starts) |-> SubSeq(l, starts[k], TokenEnd(l, starts[k]))]

\* lfs_split_line has returned an LFS to the caller
SplitReturned == pc = "caller" /\ split # NULL

\* C30: lfs_split_line returns exactly the maximal whitespace-separated
\* tokens of the line truncated at the first comment character, in order,
\* non-printable characters counting as white space; 0 <= used <= size
\* holds; and when a used LFS is passed in, used restarts at 0, so that no
\* field of the earlier line is among the fields returned.
C30_SplitsIntoTokens ==
  /\ split # NULL => 0 <= split[1].used /\ split[1].used <= split[1].size
  /\ crash = ""
  /\ SplitReturned =>
       /\ split[1].used = Len(Tokens(arg))
       /\ \A k \in 1 .. split[1].used :
            split[1].field[k] = Tokens(arg)[k] /\ split[1].field[k] # Dangling

\* a second line with one field is split into an LFS that held two
C30_Witness ==
  /\ SplitReturned
  /\ lines = 2
  /\ arg = <<"\n", "b", "#">>
  /\ split[1].used = 1
  /\ split[1].field = << <<"b">>, Dangling >>

\* the line with LFS_INITIAL_SIZE + 1 fields has made the field array grow
C30_WitnessGrown ==
  /\ SplitReturned
  /\ arg = LongLine
  /\ split[1].used = LFS_INITIAL_SIZE + 1
  /\ split[1].size = 2 * LFS_INITIAL_SIZE


\* the lines that are blank or hold only a comment: before the first '#'
\* there is nothing but white space and unprintable characters
BlankLines == { l \in Lines : \A s \in 1 .. Significant(l) : Separator(l[s]) }

\* lfs_split_line finds no field on a blank or comment-only line
NoFieldsOnBlank ==
  \A l \in BlankLines : LfsSplitLine(NULL, l, {"#"}).used = 0

\* C22: a line that is blank or consists only of a comment (it has no
\* fields) leaves the parser unchanged: process_line returns the mode it was
\* called with and changes none of cols, rows, read_rows, matrix, rhs and
\* sense; only the line counter of bip_read advances.
C22_BlankLineIsSkipped ==
  /\ []NoFieldsOnBlank
  /\ [][ (LineStep /\ lfs'.used = 0) =>
           /\ mode' = mode
           /\ bip' = bip
           /\ errno' = errno
           /\ pc' = pc
           /\ lines' = lines + 1
       ]_vars

\* a blank line between the first and the second data row
C22_Witness ==
  /\ pc = "fgets"
  /\ lines = 4
  /\ lfs.used = 0
  /\ mode = READ_COEF
  /\ bip.rows = 2
  /\ bip.read_rows = 1
  /\ <<"\n">> \in BlankLines /\ <<" ", "#", "a">> \in BlankLines


\* the number an unsigned int below 2^31 stands for
Val32(a) == a[1] * Half + a[2]

\* the loop of bip_enumerate is at the top of an iteration
LoopTop == pc = "loop" /\ negn # Zero32

\* -a on unsigned int: modulo 2^32
Neg32(a) == Add32(Xor32(a, Max32), One32)

\* the negn that goes with the node number nn when there are c columns:
\* n + negn stays what it is at the start, 1 + NegnInit(c)
NegnOf(nn, c) == Add32(Add32(One32, NegnInit(c)), Neg32(nn))

\* the node numbers below 2^c whose lowest set bit is bit j: 2^j alone, with
\* bit c-1 as well, and with all bits from j to c-1
NodesWithLowestBit(j, c) ==
  { Shl1(j),
    IF j < c - 1 THEN Add32(Shl1(j), Shl1(c - 1)) ELSE Shl1(j),
    Add32(NegnInit(c), Neg32(Dec32(Shl1(j)))) }

\* for every column count up to 32 and every bit j below it: n + negn is 0
\* in the low c bits, the mask is 2^j and the column is j
MaskAt32 ==
  \A c \in 1 .. BIP_MAX_COLS : \A j \in 0 .. (c - 1) :
    \A nn \in NodesWithLowestBit(j, c) :
      /\ LoopAssertion(nn, NegnOf(nn, c), c)
      /\ UpdateMask(nn, NegnOf(nn, c)) = Shl1(j)
      /\ ColIndex(UpdateMask(nn, NegnOf(nn, c))) = j

\* C23: at the top of every iteration of the enumeration loop n + negn is
\* 0 modulo 2^cols, updatemask = n & negn has exactly one bit set, that bit
\* is the lowest set bit of n, and its index colidx is below cols.
C23_MaskIsLowestSetBit ==
  /\ MaskAt32
  /\ LoopTop =>
       /\ Val32(Add32(n, negn)) % (2 ^ bip.cols) = 0
       /\ \E j \in 0 .. (bip.cols - 1) :
            /\ UpdateMask(n, negn) = Shl1(j)
            /\ Bit(n, j) = 1
            /\ \A m \in 0 .. (j - 1) : Bit(n, m) = 0
            /\ ColIndex(UpdateMask(n, negn)) = j

C23_Witness ==
  /\ LoopTop
  /\ bip.cols = MaxCols
  /\ n = U32(6)
  /\ UpdateMask(n, negn) = Shl1(1)
  /\ ColIndex(UpdateMask(n, negn)) = 1


\* C24: for every 32-bit word m = 2^j with exactly one bit set, 0 <= j <= 31,
\* index32[((m * 0x077CB531) mod 2^32) >> 27] equals j: the De Bruijn
\* multiply-and-shift lookup returns the position of the set bit for all 32
\* masks.
C24_LookupFindsTheBit ==
  pc = "looked" =>
    /\ \E j \in 0 .. 31 : lookup.updatemask = Shl1(j) /\ lookup.colidx = j
    /\ lookup.colidx = ColIndex(lookup.updatemask)

C24_Witness ==
  /\ pc = "looked"
  /\ lookup.updatemask = Shl1(31)
  /\ lookup.product = <<2 ^ 15, 0>>
  /\ lookup.slot = 16
  /\ lookup.colidx = 31


\* v XOR (v >> 1) for 0 <= v < 2^16: bit j is the sum modulo 2 of the bits j
\* and j + 1 of v
RECURSIVE GrayFrom(_, _)
GrayFrom(v, j) ==
  IF j > 15 THEN 0
  ELSE (((v \div (2 ^ j)) + (v \div (2 ^ (j + 1)))) % 2) * (2 ^ j) + GrayFrom(v, j + 1)

Gray(v) == GrayFrom(v, 0)

\* the order 0000, 0001, 0011, 0010, ... given for cols = 4
GrayOrder4 == <<0, 1, 3, 2, 6, 7, 5, 4, 12, 13, 15, 14, 10, 11, 9, 8>>

\* the order given for cols = 4 is v XOR (v >> 1) for v = 0 .. 15
GrayOrder4IsGray == \A v \in 0 .. 15 : GrayOrder4[v + 1] = Gray(v)

\* C25: bip_enumerate visits the assignments in reflected Gray-code order
\* starting at x = 0: the v-th visited assignment, v = 0 .. 2^cols - 1, is
\* v XOR (v >> 1); for cols = 4 that is 0000, 0001, 0011, 0010, 0110, 0111,
\* 0101, 0100, 1100, 1101, 1111, 1110, 1010, 1011, 1001, 1000, and for fewer
\* columns the beginning of that order.
C25_GrayCodeOrder ==
  /\ GrayOrder4IsGray
  /\ \A v \in 1 .. Len(visited) :
       /\ visited[v] = U32(Gray(v - 1))
       /\ visited[v] = U32(GrayOrder4[v])

C25_Witness ==
  /\ EnumFinished
  /\ bip.cols = MaxCols
  /\ visited = <<U32(0), U32(1), U32(3), U32(2), U32(6), U32(7), U32(5), U32(4)>>


\* C26: whenever the residual-based check of check_feasibility accepts an
\* assignment, bip_is_feasible, which recomputes every row from the
\* original matrix with the original senses, accepts it too: the assertion
\* before the call of the Reporter never fails.
C26_FastAcceptImpliesSlowAccept ==
  /\ crash # "check_feasibility: bip_is_feasible"
  /\ (Started /\ visited # <<>> /\ ScanResiduals(bip, r) = bip.rows)
       => FBipIsFeasible(bip, x)


\* the step of bip_read in which fgets returns NULL
EofStep == pc = "fgets" /\ mode # READ_ERROR /\ pc' \notin {"fgets", "field"}

\* the step of process_line that accepts the last field of a data line
DataLineAccepted == pc = "field" /\ pc' = "fgets" /\ mode' # READ_ERROR

\* C27: bip_read returns success only if the file supplied a cols value in
\* 1..32, a rows value in 1..128 and exactly rows data rows: read_rows <= rows
\* holds after every processed line, each accepted data line increases
\* read_rows by exactly one, and end of file with cols = 0, rows = 0 or
\* read_rows < rows gives the failure "unexpected EOF".
C27_SuccessOnlyWithAllRows ==
  /\ [](pc = "can_overflow" =>
          /\ bip.cols \in 1 .. BIP_MAX_COLS
          /\ bip.rows \in 1 .. BIP_MAX_ROWS
          /\ bip.read_rows = bip.rows)
  /\ [](pc = "fgets" => bip.read_rows <= bip.rows)
  /\ [][ /\ DataLineAccepted => bip'.read_rows = bip.read_rows + 1
         /\ (pc \in {"fgets", "field"} /\ ~DataLineAccepted)
              => bip'.read_rows = bip.read_rows
         /\ (EofStep /\ (bip.cols = 0 \/ bip.rows = 0 \/ bip.read_rows < bip.rows))
              => pc' = "main_ret" /\ ret' = -1
       ]_vars


\* the 32-bit word whose bit j is configuration[j]
RECURSIVE WordFrom(_, _, _)
WordFrom(configuration, j, len) ==
  IF j >= len THEN 0
  ELSE configuration[j] * (2 ^ j) + WordFrom(configuration, j + 1, len)

WordOf(configuration, len) == U32(WordFrom(configuration, 0, len))

\* both programs have run to their end on one file
BothDone == pc = "naive_done" /\ Started

\* C28: on the same integer instance bip_enumerate and print_bin_solutions_lp
\* classify every assignment identically: they report the same set and the
\* same number of feasible solutions.
C28_SameSolutionsAsBruteForce ==
  /\ (pc = "for" /\ Started) =>
       \A w \in AllVectors(bip.cols) :
         IsFeasible(ConfigurationOf(w, bip.cols), lp[1]) <=> w \in SeqSet(reported)
  /\ BothDone =>
       /\ crash = ""
       /\ { WordOf(naive[1].printed[k], bip.cols) : k \in 1 .. Len(naive[1].printed) }
            = SeqSet(reported)
       /\ Len(naive[1].printed) = Len(reported)
       /\ naive[1].feasible_solutions = sol_count

\* both programs have found the two solutions of a file with three columns
\* and an equation
C28_Witness ==
  /\ BothDone
  /\ bip.cols = 3
  /\ bip.equs = 1
  /\ sol_count = 2
  /\ naive[1].feasible_solutions = 2


\* C29: for every column count the loader of the brute-force variant
\* accepts, 32 included, the loop of print_bin_solutions_lp ends after
\* checking exactly 2^cols configurations, each once, in little-endian
\* binary counting order: the 32-bit counter i counts the checks and
\* reaches count = 2^cols.
C29_LoopEndsAfterAllConfigurations ==
  /\ pc = "for" =>
       /\ naive[1].checks = ToLong(naive[1].i)
       /\ ~Less64(naive[1].count, naive[1].checks)
       /\ naive[1].configuration = ConfigurationOf(naive[1].i, lp[1].cols)
  /\ pc = "naive_done" =>
       /\ naive[1].checks = naive[1].count
       /\ ToLong(naive[1].i) = naive[1].count

=============================================================================
